---------------------------- MODULE Spec2Model ----------------------------
(***************************************************************************)
(* The math agent's LangGraph pipeline (src/graph/build_graph.py) and its  *)
(* nodes (src/nodes/*.py), as a state machine over the shared MathState.   *)
(*                                                                         *)
(* Texts are sequences of one-character strings, so that strip, lower,     *)
(* substring search and split are computed the way Python computes them.   *)
(* Scores are integers in hundredths (80 stands for 0.80).                 *)
(***************************************************************************)
EXTENDS Integers, Sequences, FiniteSets, TLC

VARIABLES
  pc,                 \* the node LangGraph runs next ("END": the run is over)
  keys,               \* the keys present in the state dict
  query,
  is_safe,
  is_math,
  broken_queries,
  local_results,
  web_results,
  reranked_results,
  reasoning_output,
  verification,
  final_output,
  needs_web_fallback,
  loop_count,
  feedback,
  logged,             \* what feedback_node did with the feedback sink in this run
  runNo,              \* index of the current graph.ainvoke on this thread_id
  trace,              \* the nodes executed so far in the current run, in order
  verdicts,           \* is_correct of each verification stored in the current run
  crossed,            \* how often this run took the edge verifier -> mcp_search
  calls,              \* the external calls of the current run and how each ended
  sessions            \* the checkpointer and the runs of other sessions (see below)

vars == <<pc, keys, query, is_safe, is_math, broken_queries, local_results,
          web_results, reranked_results, reasoning_output, verification,
          final_output, needs_web_fallback, loop_count, feedback, logged,
          runNo, trace, verdicts, crossed, calls, sessions>>

stateFields == <<keys, query, is_safe, is_math, broken_queries, local_results,
                 web_results, reranked_results, reasoning_output, verification,
                 final_output, needs_web_fallback, loop_count, feedback>>

-----------------------------------------------------------------------------
(* Python str operations on texts *)

Whitespace == {" ", "\n", "\t", "\r"}

UpperToLower ==
  ("A" :> "a") @@ ("B" :> "b") @@ ("C" :> "c") @@ ("D" :> "d") @@ ("E" :> "e") @@
  ("F" :> "f") @@ ("G" :> "g") @@ ("H" :> "h") @@ ("I" :> "i") @@ ("J" :> "j") @@
  ("K" :> "k") @@ ("L" :> "l") @@ ("M" :> "m") @@ ("N" :> "n") @@ ("O" :> "o") @@
  ("P" :> "p") @@ ("Q" :> "q") @@ ("R" :> "r") @@ ("S" :> "s") @@ ("T" :> "t") @@
  ("U" :> "u") @@ ("V" :> "v") @@ ("W" :> "w") @@ ("X" :> "x") @@ ("Y" :> "y") @@
  ("Z" :> "z")

\* str.lower()
Lower(t) ==
  [i \in 1..Len(t) |-> IF t[i] \in DOMAIN UpperToLower THEN UpperToLower[t[i]] ELSE t[i]]

RECURSIVE LStrip(_)
LStrip(t) ==
  IF t # <<>> /\ Head(t) \in Whitespace THEN LStrip(Tail(t)) ELSE t

RECURSIVE RStrip(_)
RStrip(t) ==
  IF t # <<>> /\ t[Len(t)] \in Whitespace THEN RStrip(SubSeq(t, 1, Len(t) - 1)) ELSE t

\* str.strip()
Strip(t) == RStrip(LStrip(t))

\* t.startswith(p) at 1-based position i
MatchAt(t, p, i) ==
  /\ i >= 1
  /\ i + Len(p) - 1 <= Len(t)
  /\ SubSeq(t, i, i + Len(p) - 1) = p

StartsWith(t, p) == MatchAt(t, p, 1)

\* p in t
Contains(t, p) == \E i \in 1..(Len(t) + 1) : MatchAt(t, p, i)

\* any(k in t for k in words)
ContainsAny(t, words) == \E k \in words : Contains(t, k)

\* One entry of calls: the stage that made the call and what the call did
Call(stage, outcome) == [stage |-> stage, outcome |-> outcome]

-----------------------------------------------------------------------------
(* input_guardrail_node *)

\* "Invalid query: input is empty."
MSG_EMPTY ==
  <<"I","n","v","a","l","i","d"," ","q","u","e","r","y",":"," ","i","n","p","u","t"," ","i","s",
    " ","e","m","p","t","y",".">>

\* "Your query appears to contain unsafe or harmful content. This math agent only answers mathematics questions."
MSG_UNSAFE ==
  <<"Y","o","u","r"," ","q","u","e","r","y"," ","a","p","p","e","a","r","s"," ","t","o"," ","c",
    "o","n","t","a","i","n"," ","u","n","s","a","f","e"," ","o","r"," ","h","a","r","m","f","u",
    "l"," ","c","o","n","t","e","n","t","."," ","T","h","i","s"," ","m","a","t","h"," ","a","g",
    "e","n","t"," ","o","n","l","y"," ","a","n","s","w","e","r","s"," ","m","a","t","h","e","m",
    "a","t","i","c","s"," ","q","u","e","s","t","i","o","n","s",".">>

\* "This agent only supports mathematics-related questions. Please ask a math question (e.g., an equation, proof, or calculation)."
MSG_NOT_MATH ==
  <<"T","h","i","s"," ","a","g","e","n","t"," ","o","n","l","y"," ","s","u","p","p","o","r","t",
    "s"," ","m","a","t","h","e","m","a","t","i","c","s","-","r","e","l","a","t","e","d"," ","q",
    "u","e","s","t","i","o","n","s","."," ","P","l","e","a","s","e"," ","a","s","k"," ","a"," ",
    "m","a","t","h"," ","q","u","e","s","t","i","o","n"," ","(","e",".","g",".",","," ","a","n",
    " ","e","q","u","a","t","i","o","n",","," ","p","r","o","o","f",","," ","o","r"," ","c","a",
    "l","c","u","l","a","t","i","o","n",")",".">>

harmful_keywords ==
  { <<"k","i","l","l">>,
    <<"b","o","m","b">>,
    <<"a","t","t","a","c","k">>,
    <<"h","a","c","k">>,
    <<"s","u","i","c","i","d","e">>,
    <<"n","s","f","w">>,
    <<"v","i","r","u","s">>,
    <<"e","x","p","l","o","i","t">> }

\* The source list has no comma between "lim" and "compute": Python joins the two
\* literals into the one keyword "limcompute".
math_keywords ==
  { <<"s","o","l","v","e">>,
    <<"e","q","u","a","t","i","o","n">>,
    <<"c","a","l","c","u","l","a","t","e">>,
    <<"f","i","n","d">>,
    <<"h","o","w"," ","m","a","n","y">>,
    <<"v","a","l","u","e">>,
    <<"i","n","t","e","g","r","a","l">>,
    <<"d","e","r","i","v","a","t","i","v","e">>,
    <<"n","u","m","b","e","r">>,
    <<"a","r","i","t","h","m","a","t","i","c">>,
    <<"a","n","g","l","e">>,
    <<"a","x","i","s">>,
    <<"c","e","n","t","e","r">>,
    <<"c","l","o","c","k">>,
    <<"c","o","m","p","a","r","e">>,
    <<"c","o","u","n","t">>,
    <<"t","o","t","a","l">>,
    <<"l","i","m","i","t">>,
    <<"p","r","o","b","a","b","i","l","i","t","y">>,
    <<"a","l","g","e","b","r","a">>,
    <<"g","e","o","m","e","t","r","y">>,
    <<"m","a","t","r","i","x">>,
    <<"e","x","p","r","e","s","s","i","o","n">>,
    <<"f","o","r","m","u","l","a">>,
    <<"c","o","n","s","t","a","n","t">>,
    <<"v","a","r","i","a","b","l","e">>,
    <<"t","r","i","g","o","n","o","m","e","t","r","i","c">>,
    <<"c","i","r","c","l","e">>,
    <<"t","r","i","a","n","g","l","e">>,
    <<"d","e","g","r","e","e">>,
    <<"p","e","r","c","e","n","t","a","g","e">>,
    <<"s","i","n">>,
    <<"c","o","s">>,
    <<"t","a","n">>,
    <<"l","i","m","c","o","m","p","u","t","e">>,
    <<"e","v","a","l","u","a","t","e">>,
    <<"e","s","t","i","m","a","t","e">>,
    <<"s","i","m","p","l","i","f","y">>,
    <<"f","u","n","c","t","i","o","n">>,
    <<"t","h","e","o","r","e","m">>,
    <<"e","q","u","a","l","s">>,
    <<"r","o","o","t">>,
    <<"s","q","u","a","r","e">>,
    <<"l","i","n","e","a","r">>,
    <<"p","o","l","y","n","o","m","i","a","l">>,
    <<"a","r","e","a">>,
    <<"b","a","r">>,
    <<"f","a","c","t","o","r">>,
    <<"t","i","m","e">>,
    <<"t","i","m","e","s">>,
    <<"p","r","o","f","i","t">>,
    <<"r","u","l","e">>,
    <<"p","o","w","e","r">>,
    <<"s","o","l","u","t","i","o","n">>,
    <<"p","r","o","v","e">>,
    <<"p","r","o","o","f">>,
    <<"m","e","a","s","u","r","e">>,
    <<"s","e","r","i","e","s">>,
    <<"s","u","m">>,
    <<"p","r","o","d","u","c","t">>,
    <<"r","a","t","i","o">>,
    <<"v","e","c","t","o","r">>,
    <<"g","r","a","p","h">>,
    <<"a","l","g","o","r","i","t","h","m">>,
    <<"s","e","t">>,
    <<"d","i","g","i","t">>,
    <<"f","r","a","c","t","i","o","n">>,
    <<"u","n","i","t">>,
    <<"x","^">>,
    <<"y","^">>,
    <<"z","^">> }

\* Faulty variant: the math-relevance test placed before the unsafe test
GuardrailVerdict_math_first(raw_query) ==
  LET q       == Strip(raw_query)
      lowered == Lower(q)
  IN  IF q = <<>> THEN "empty"
      ELSE IF ContainsAny(lowered, math_keywords)
             THEN "accept"
      ELSE IF ContainsAny(lowered, harmful_keywords) THEN "unsafe"
      ELSE "not_math"

\* Faulty variant: keywords looked up in the query as typed, without lower()
GuardrailVerdict_case_sensitive(raw_query) ==
  LET q == Strip(raw_query)
  IN  IF q = <<>> THEN "empty"
      ELSE IF ContainsAny(q, harmful_keywords) THEN "unsafe"
      ELSE IF ~ContainsAny(q, math_keywords) THEN "not_math"
      ELSE "accept"

\* The branch input_guardrail_node takes for a raw query: the if-chain in source order.
GuardrailVerdict(raw_query) ==
  LET q       == Strip(raw_query)
      lowered == Lower(q)
  IN  IF q = <<>> THEN "empty"
      ELSE IF ContainsAny(lowered, harmful_keywords) THEN "unsafe"
      ELSE IF ~ContainsAny(lowered, math_keywords) THEN "not_math"
      ELSE "accept"

GuardrailMessage(verdict) ==
  CASE verdict = "empty"    -> MSG_EMPTY
    [] verdict = "unsafe"   -> MSG_UNSAFE
    [] verdict = "not_math" -> MSG_NOT_MATH

\* Faulty variant: the edge ignores is_safe
safe_or_end_always_router(safe) == "router"

\* Conditional edge input_guardrail -> router | END
safe_or_end(safe) == IF safe THEN "router" ELSE "END"

InputGuardrailNode ==
  /\ pc = "input_guardrail"
  /\ LET verdict == GuardrailVerdict(query)
     IN  /\ is_safe' = (verdict = "accept")
         /\ IF verdict = "accept"
              THEN /\ keys' = keys \cup {"is_safe"}
                   /\ UNCHANGED reasoning_output
              ELSE /\ keys' = keys \cup {"is_safe", "reasoning_output"}
                   /\ reasoning_output' = GuardrailMessage(verdict)
         /\ pc' = safe_or_end(verdict = "accept")
  /\ trace' = Append(trace, "input_guardrail")
  /\ UNCHANGED <<query, is_math, broken_queries, local_results, web_results,
                 reranked_results, verification, final_output, needs_web_fallback,
                 loop_count, feedback, logged, runNo, verdicts, crossed, calls>>
  /\ UNCHANGED sessions

-----------------------------------------------------------------------------
(* router_node *)

RouterDefaultKeys ==
  {"broken_queries", "local_results", "web_results", "reranked_results",
   "reasoning_output", "verification", "needs_web_fallback", "feedback",
   "loop_count", "final_output"}

\* state.setdefault(k, d): the value the key holds afterwards
SetDefault(k, cur, d) == IF k \in keys THEN cur ELSE d

\* Conditional edge router -> query_breaker | END
route_math_or_end(math) == IF math THEN "query_breaker" ELSE "END"

RouterNode ==
  /\ pc = "router"
  /\ broken_queries'     = SetDefault("broken_queries", broken_queries, <<>>)
  /\ local_results'      = SetDefault("local_results", local_results, <<>>)
  /\ web_results'        = SetDefault("web_results", web_results, <<>>)
  /\ reranked_results'   = SetDefault("reranked_results", reranked_results, <<>>)
  /\ reasoning_output'   = SetDefault("reasoning_output", reasoning_output, <<>>)
  /\ verification'       = SetDefault("verification", verification, <<>>)
  /\ needs_web_fallback' = SetDefault("needs_web_fallback", needs_web_fallback, FALSE)
  /\ feedback'           = SetDefault("feedback", feedback, <<>>)
  /\ loop_count'         = SetDefault("loop_count", loop_count, 0)
  /\ final_output'       = SetDefault("final_output", final_output, <<>>)
  /\ IF is_safe
       THEN /\ is_math' = TRUE
            /\ keys' = keys \cup RouterDefaultKeys \cup {"is_math"}
       ELSE /\ UNCHANGED is_math
            /\ keys' = keys \cup RouterDefaultKeys
  /\ pc' = route_math_or_end(is_math')
  /\ trace' = Append(trace, "router")
  /\ UNCHANGED <<query, is_safe, logged, runNo, verdicts, crossed, calls>>
  /\ UNCHANGED sessions

-----------------------------------------------------------------------------
(* query_breaker_node *)

triggers ==
  << <<" ","a","n","d"," ">>,
     <<" ","t","h","e","n"," ">>,
     <<" ","a","l","s","o"," ">>,
     <<" ","n","e","x","t"," ">>,
     <<" ","f","i","r","s","t"," ">>,
     <<" ","s","e","c","o","n","d"," ">> >>

\* str.split(sep): the pieces between the non-overlapping occurrences of sep, left to right
RECURSIVE Split(_, _)
Split(t, sep) ==
  LET hits == {i \in 1..Len(t) : MatchAt(t, sep, i)}
  IN  IF hits = {}
        THEN <<t>>
        ELSE LET i == CHOOSE h \in hits : \A g \in hits : h <= g
             IN  <<SubSeq(t, 1, i - 1)>> \o Split(SubSeq(t, i + Len(sep), Len(t)), sep)

\* [p.strip() for p in parts if p.strip()]
RECURSIVE StripNonEmpty(_)
StripNonEmpty(parts) ==
  IF parts = <<>> THEN <<>>
  ELSE LET p == Strip(Head(parts))
       IN  (IF p = <<>> THEN <<>> ELSE <<p>>) \o StripNonEmpty(Tail(parts))

\* The trigger is looked up in the lowered query and the ORIGINAL query is split on it.
_heuristic_split(q) ==
  LET lowered == Lower(q)
      found   == {n \in 1..Len(triggers) : Contains(lowered, triggers[n])}
  IN  IF found = {}
        THEN <<q>>
        ELSE LET n == CHOOSE m \in found : \A k \in found : m <= k
             IN  StripNonEmpty(Split(q, triggers[n]))

\* What the Groq call and json.loads hand back to _llm_split:
\*   no_key        GROQ_API_KEY unset, no call is made
\*   raise         the call raised
\*   invalid_json  json.loads(content) raised (also for empty content)
\*   non_list      the JSON value is not a list
\*   list_non_str  a list with an element that is not a string
\*   list          a list of strings (items)
LlmSplitOutcome(kind, items) == [kind |-> kind, items |-> items]

_llm_split(q, o) ==
  IF o.kind = "list" THEN StripNonEmpty(o.items) ELSE <<q>>

\* Faulty variant: an empty result of the call is written as it is
SubqueriesOrQuery_no_fallback(q, subqueries) == subqueries

\* if not subqueries: subqueries = [query]
SubqueriesOrQuery(q, subqueries) == IF subqueries = <<>> THEN <<q>> ELSE subqueries

\* Faulty variant: the heuristic result is used only from three fragments on
HeuristicSplitFound_from_three(heuristics) == Len(heuristics) > 2

\* if len(heuristics) > 1
HeuristicSplitFound(heuristics) == Len(heuristics) > 1

QueryBreakerNode(E) ==
  /\ pc = "query_breaker"
  /\ LET q          == Strip(query)
         heuristics == _heuristic_split(q)
     IN  IF HeuristicSplitFound(heuristics)
           THEN /\ broken_queries' = heuristics
                /\ UNCHANGED calls
           ELSE \E o \in E.llm_split :
                  LET subqueries == _llm_split(q, o)
                  IN  /\ broken_queries' = SubqueriesOrQuery(q, subqueries)
                      /\ calls' = Append(calls, Call("query_breaker", o))
  /\ keys' = keys \cup {"broken_queries"}
  /\ pc' = "local_rag"
  /\ trace' = Append(trace, "query_breaker")
  /\ UNCHANGED <<query, is_safe, is_math, local_results, web_results, reranked_results,
                 reasoning_output, verification, final_output, needs_web_fallback,
                 loop_count, feedback, logged, runNo, verdicts, crossed>>
  /\ UNCHANGED sessions

-----------------------------------------------------------------------------
(* local_rag_node *)

\* src/config.py: RAG_THRESHOLD = 0.80, in hundredths
RAG_THRESHOLD == 80

\* A langchain Document: page_content and the metadata the pipeline reads. score and
\* rerank_score hold at most one value: {} when the metadata has no such key.
Document(text, origin, title, url, score, rerank_score) ==
  [page_content |-> text, origin |-> origin, title |-> title, url |-> url,
   score |-> score, rerank_score |-> rerank_score]

PROBLEM_PREFIX == <<"P","r","o","b","l","e","m",":"," ">>
SOLUTION_PREFIX == <<"S","o","l","u","t","i","o","n",":"," ">>

\* One raw hit {score, payload: {problem, solution}} -> Document, or nothing when the
\* problem text is empty ("skip malformed entries")
RECURSIVE LocalDocs(_)
LocalDocs(raw_results) ==
  IF raw_results = <<>> THEN <<>>
  ELSE LET r        == Head(raw_results)
           problem  == Strip(r.problem)
           solution == Strip(r.solution)
           text     == IF solution = <<>>
                         THEN PROBLEM_PREFIX \o problem
                         ELSE PROBLEM_PREFIX \o problem \o <<"\n">> \o SOLUTION_PREFIX \o solution
       IN  (IF problem = <<>>
              THEN <<>>
              ELSE <<Document(text, "local_rag", <<>>, <<>>, {r.score}, {})>>)
           \o LocalDocs(Tail(raw_results))

\* Faulty variant: no candidate at all counts as a strong local result
NeedsWebFallback_empty_is_strong(docs) ==
  IF docs = <<>> THEN FALSE
  ELSE LET top_score == CHOOSE s \in docs[1].score : TRUE
       IN  top_score < RAG_THRESHOLD

\* Faulty variant: the threshold comparison with <= in place of <
NeedsWebFallback_at_or_below(docs) ==
  IF docs = <<>> THEN TRUE
  ELSE LET top_score == CHOOSE s \in docs[1].score : TRUE
       IN  top_score <= RAG_THRESHOLD

\* state["needs_web_fallback"] after the threshold logic
NeedsWebFallback(docs) ==
  IF docs = <<>> THEN TRUE
  ELSE LET top_score == CHOOSE s \in docs[1].score : TRUE
       IN  top_score < RAG_THRESHOLD

\* What local_rag_search.invoke hands back:
\*   raise    the tool invocation raised
\*   error    {"error": ...}: embedding or search failed inside the tool
\*   results  {"results": [...]} (results)
ToolOutcome(kind, results) == [kind |-> kind, results |-> results]

\* Faulty variant: the edge ignores needs_web_fallback
rag_or_mcp_always_search(needs_web) == "mcp_search"

\* Conditional edge local_rag -> mcp_search | reranker
rag_or_mcp(needs_web) == IF needs_web THEN "mcp_search" ELSE "reranker"

LocalRagNode(E) ==
  /\ pc = "local_rag"
  /\ LET q               == Strip(query)
         retrieval_query == IF broken_queries # <<>> THEN Strip(broken_queries[1]) ELSE q
     IN  IF retrieval_query = <<>>
           THEN /\ local_results' = <<>>
                /\ needs_web_fallback' = TRUE
                /\ UNCHANGED calls
           ELSE \E o \in E.tool :
                  /\ calls' = Append(calls, Call("local_rag", o))
                  /\ IF o.kind = "raise"
                       THEN /\ local_results' = <<>>
                            /\ needs_web_fallback' = TRUE
                       ELSE LET raw_results == IF o.kind = "results" THEN o.results
                                                                     ELSE <<>>
                                docs        == LocalDocs(raw_results)
                            IN  /\ local_results' = docs
                                /\ needs_web_fallback' = NeedsWebFallback(docs)
  /\ keys' = keys \cup {"local_results", "needs_web_fallback"}
  /\ pc' = rag_or_mcp(needs_web_fallback')
  /\ trace' = Append(trace, "local_rag")
  /\ UNCHANGED <<query, is_safe, is_math, broken_queries, web_results, reranked_results,
                 reasoning_output, verification, final_output, loop_count, feedback,
                 logged, runNo, verdicts, crossed>>
  /\ UNCHANGED sessions

-----------------------------------------------------------------------------
(* mcp_search_node *)

\* How the bridge subprocess ends:
\*   status  launch_error (subprocess.run raised something other than TimeoutExpired),
\*           timeout, exit_zero, exit_nonzero
\*   stdout  empty, invalid (not JSON), error_dict ({"error": ...}),
\*           results_dict ({"results": [...]}) with its results
ProcOutcome(status, stdout, results) ==
  [status |-> status, stdout |-> stdout, results |-> results]

BridgeDict(has_results, results) ==
  [type |-> "dict", has_results |-> has_results, results |-> results]

BridgeStr == [type |-> "str", has_results |-> FALSE, results |-> <<>>]

\* json.loads gave a value that is neither a dict nor a str (a JSON array)
BridgeList == [type |-> "list", has_results |-> FALSE, results |-> <<>>]

\* The value _run_bridge returns for a subprocess that was launched
_run_bridge(p) ==
  IF p.status = "timeout" THEN BridgeDict(FALSE, <<>>)
  ELSE IF p.status = "exit_nonzero"
    THEN CASE p.stdout = "empty"        -> BridgeDict(FALSE, <<>>)
           [] p.stdout = "invalid"      -> BridgeStr
           [] p.stdout = "error_dict"   -> BridgeDict(FALSE, <<>>)
           [] p.stdout = "json_list"    -> BridgeList
           [] p.stdout = "results_dict" -> BridgeDict(TRUE, p.results)
    ELSE CASE p.stdout = "empty"        -> BridgeDict(FALSE, <<>>)
           [] p.stdout = "invalid"      -> BridgeStr
           [] p.stdout = "error_dict"   -> BridgeDict(FALSE, <<>>)
           [] p.stdout = "json_list"    -> BridgeList
           [] p.stdout = "results_dict" -> BridgeDict(TRUE, p.results)

\* aggregated_results: one {"source": "tavily", title, url, content} per hit
TavilyItems(results) ==
  [i \in 1..Len(results) |->
     [source |-> "tavily", title |-> results[i].title, url |-> results[i].url,
      content |-> results[i].content]]

\* Faulty variant: the hits are appended to the web_results already in the state
WebResultsOf_appended(out) ==
  web_results \o (IF out.type = "dict" /\ out.has_results
                    THEN TavilyItems(out.results) ELSE <<>>)

\* Faulty variant: a search without a results list keeps the earlier web_results
WebResultsOf_keeps_earlier(out) ==
  IF out.type = "dict" /\ out.has_results THEN TavilyItems(out.results) ELSE web_results

\* state["web_results"] for a value returned by _run_bridge
WebResultsOf(out) ==
  LET tavily_out == IF out.type = "str" THEN BridgeDict(FALSE, <<>>) ELSE out
  IN  IF tavily_out.has_results THEN TavilyItems(tavily_out.results) ELSE <<>>

McpSearchNode(E) ==
  /\ pc = "mcp_search"
  /\ trace' = Append(trace, "mcp_search")
  /\ IF Strip(query) = <<>>
       THEN /\ web_results' = <<>>
            /\ keys' = keys \cup {"web_results"}
            /\ pc' = "reranker"
            /\ UNCHANGED calls
       ELSE \E p \in E.bridge :
              /\ calls' = Append(calls, Call("mcp_search", p))
              /\ IF p.status = "launch_error"
                   THEN \* the exception leaves the node: graph.ainvoke raises
                        /\ pc' = "crashed"
                        /\ UNCHANGED <<web_results, keys>>
                   ELSE /\ web_results' = WebResultsOf(_run_bridge(p))
                        /\ keys' = keys \cup {"web_results"}
                        /\ pc' = "reranker"
  /\ UNCHANGED <<query, is_safe, is_math, broken_queries, local_results, reranked_results,
                 reasoning_output, verification, final_output, needs_web_fallback,
                 loop_count, feedback, logged, runNo, verdicts, crossed>>
  /\ UNCHANGED sessions

-----------------------------------------------------------------------------
(* hybrid_reranker_node *)

RERANK_TOP_K == 8

TITLE_PREFIX == <<"T","i","t","l","e",":"," ">>
URL_PREFIX == <<"U","R","L",":"," ">>

\* sep.join(parts)
RECURSIVE Join(_, _)
Join(parts, sep) ==
  IF parts = <<>> THEN <<>>
  ELSE IF Len(parts) = 1 THEN parts[1]
  ELSE parts[1] \o sep \o Join(Tail(parts), sep)

\* Faulty variant: the slice keeps the whole list
Take_everything(seq, n) == seq

\* seq[:n]
Take(seq, n) == SubSeq(seq, 1, IF Len(seq) < n THEN Len(seq) ELSE n)

\* (text, meta) of a local Document, as one candidate record
_make_candidate_from_local(doc) ==
  [text |-> Strip(doc.page_content), origin |-> doc.origin, title |-> doc.title,
   url |-> doc.url, score |-> doc.score]

\* (text, meta) of a web result dict
_make_candidate_from_web(item) ==
  LET title   == Strip(item.title)
      url     == Strip(item.url)
      content == Strip(item.content)
      parts   == (IF title # <<>> THEN <<TITLE_PREFIX \o title>> ELSE <<>>)
                 \o (IF url # <<>> THEN <<URL_PREFIX \o url>> ELSE <<>>)
                 \o (IF content # <<>> THEN << <<>>, content >> ELSE <<>>)
  IN  [text |-> Strip(Join(parts, <<"\n">>)), origin |-> item.source, title |-> title,
       url |-> url, score |-> {}]

RECURSIVE NonEmptyCandidates(_)
NonEmptyCandidates(cands) ==
  IF cands = <<>> THEN <<>>
  ELSE (IF Head(cands).text = <<>> THEN <<>> ELSE <<Head(cands)>>)
       \o NonEmptyCandidates(Tail(cands))

\* Faulty variant: the local candidates enter the pool whatever needs_web says
CandidatePool_always_local(needs_web, local_docs, web_items) ==
  LET locals == [i \in 1..Len(local_docs) |-> _make_candidate_from_local(local_docs[i])]
      webs   == [i \in 1..Len(web_items) |-> _make_candidate_from_web(web_items[i])]
  IN  NonEmptyCandidates(locals) \o NonEmptyCandidates(webs)

\* Faulty variant: a strong local retrieval leaves the web results out of the pool
CandidatePool_no_web_bonus(needs_web, local_docs, web_items) ==
  LET locals == [i \in 1..Len(local_docs) |-> _make_candidate_from_local(local_docs[i])]
      webs   == [i \in 1..Len(web_items) |-> _make_candidate_from_web(web_items[i])]
  IN  IF needs_web THEN NonEmptyCandidates(webs) ELSE NonEmptyCandidates(locals)

\* The candidate pool: local candidates first (only when local was strong), then web
CandidatePool(needs_web, local_docs, web_items) ==
  LET locals == IF needs_web THEN <<>>
                ELSE [i \in 1..Len(local_docs) |-> _make_candidate_from_local(local_docs[i])]
      webs   == [i \in 1..Len(web_items) |-> _make_candidate_from_web(web_items[i])]
  IN  NonEmptyCandidates(locals) \o NonEmptyCandidates(webs)

\* Faulty variant: a descending sort that puts the later of two equal scores first
SortedOrder_ties_reversed(scores) ==
  LET n       == Len(scores)
      rank(i) == Cardinality({j \in 1..n : scores[j] > scores[i]})
                 + Cardinality({j \in (i + 1)..n : scores[j] = scores[i]}) + 1
  IN  [k \in 1..n |-> CHOOSE i \in 1..n : rank(i) = k]

\* scored.sort(key=score, reverse=True): Python's sort is stable, so the place of
\* candidate i is fixed by the higher scores and by the equal scores before it
SortedOrder(scores) ==
  LET n       == Len(scores)
      rank(i) == Cardinality({j \in 1..n : scores[j] > scores[i]})
                 + Cardinality({j \in 1..(i - 1) : scores[j] = scores[i]}) + 1
  IN  [k \in 1..n |-> CHOOSE i \in 1..n : rank(i) = k]

\* final_docs: the top RERANK_TOP_K of the sorted candidates, each with its rerank_score
RerankedDocs(pool, scores) ==
  LET order == Take(SortedOrder(scores), RERANK_TOP_K)
  IN  [k \in 1..Len(order) |->
         LET c == pool[order[k]]
         IN  Document(c.text, c.origin, c.title, c.url, c.score, {scores[order[k]]})]

\* The except branch: local documents as they are, or the web items as Documents
RECURSIVE WebFallbackDocs(_)
WebFallbackDocs(items) ==
  IF items = <<>> THEN <<>>
  ELSE LET c == _make_candidate_from_web(Head(items))
       IN  (IF c.text = <<>> THEN <<>>
            ELSE <<Document(c.text, c.origin, c.title, c.url, {}, {})>>)
           \o WebFallbackDocs(Tail(items))

\* Faulty variant: the fallback prefers the web items whenever there are any
ScorerFallback_web_when_present(needs_web, local_docs, web_items) ==
  IF web_items = <<>>
    THEN Take(local_docs, RERANK_TOP_K)
    ELSE WebFallbackDocs(Take(web_items, RERANK_TOP_K))

ScorerFallback(needs_web, local_docs, web_items) ==
  IF ~needs_web
    THEN Take(local_docs, RERANK_TOP_K)
    ELSE WebFallbackDocs(Take(web_items, RERANK_TOP_K))

\* What _score_with_cross_encoder does for n pairs: it raises, or returns n scores
ScorerOutcomes(E, n) ==
  {[kind |-> k, scores |-> <<>>] : k \in E.scorer_kinds \ {"scores"}}
  \cup (IF "scores" \in E.scorer_kinds
          THEN {[kind |-> "scores", scores |-> s] : s \in [1..n -> E.score_vals]}
          ELSE {})

\* Faulty variant: an empty pool is scored like any other
NoCandidates_never(pool) == FALSE

\* if not candidates_text
NoCandidates(pool) == pool = <<>>

HybridRerankerNode(E) ==
  /\ pc = "reranker"
  /\ IF Strip(query) = <<>>
       THEN /\ reranked_results' = <<>>
            /\ UNCHANGED calls
       ELSE LET pool == CandidatePool(needs_web_fallback, local_results, web_results)
            IN  IF NoCandidates(pool)
                  THEN /\ reranked_results' = <<>>
                       /\ UNCHANGED calls
                  ELSE \E o \in ScorerOutcomes(E, Len(pool)) :
                         /\ calls' = Append(calls, Call("reranker", o))
                         /\ reranked_results' =
                              IF o.kind = "raise"
                                THEN ScorerFallback(needs_web_fallback, local_results,
                                                    web_results)
                                ELSE RerankedDocs(pool, o.scores)
  /\ keys' = keys \cup {"reranked_results"}
  /\ pc' = "reasoning"
  /\ trace' = Append(trace, "reranker")
  /\ UNCHANGED <<query, is_safe, is_math, broken_queries, local_results, web_results,
                 reasoning_output, verification, final_output, needs_web_fallback,
                 loop_count, feedback, logged, runNo, verdicts, crossed>>
  /\ UNCHANGED sessions

-----------------------------------------------------------------------------
(* reasoning_node *)

\* "Error: The reasoning model failed. Please try again or verify the retrieved context."
REASONING_APOLOGY ==
  <<"E","r","r","o","r",":"," ","T","h","e"," ","r","e","a","s","o","n","i","n","g"," ","m","o",
    "d","e","l"," ","f","a","i","l","e","d","."," ","P","l","e","a","s","e"," ","t","r","y"," ",
    "a","g","a","i","n"," ","o","r"," ","v","e","r","i","f","y"," ","t","h","e"," ","r","e","t",
    "r","i","e","v","e","d"," ","c","o","n","t","e","x","t",".">>

\* What the model client does: ChatGroq(...) raises before the try block
\* (construct_error), llm.ainvoke raises (raise), or it returns content
\* (<<>> for None or "")
LlmOutcome(kind, content) == [kind |-> kind, content |-> content]

ReasoningNode(E) ==
  /\ pc = "reasoning"
  /\ \E o \in E.reasoning :
       /\ calls' = Append(calls, Call("reasoning", o))
       /\ IF o.kind = "construct_error"
            THEN \* the exception leaves the node: graph.ainvoke raises
                 /\ pc' = "crashed"
                 /\ UNCHANGED <<reasoning_output, keys>>
            ELSE /\ reasoning_output' = IF o.kind = "raise" THEN REASONING_APOLOGY
                                                          ELSE o.content
                 /\ keys' = keys \cup {"reasoning_output"}
                 /\ pc' = "verifier"
  /\ trace' = Append(trace, "reasoning")
  /\ UNCHANGED <<query, is_safe, is_math, broken_queries, local_results, web_results,
                 reranked_results, verification, final_output, needs_web_fallback,
                 loop_count, feedback, logged, runNo, verdicts, crossed>>
  /\ UNCHANGED sessions

-----------------------------------------------------------------------------
(* JSON texts of the verifier *)

\* "{\"is_correct\": false, \"issues\": [\"Verifier model failed to evaluate the solution.\"], \"improved_answer\": \"The system could not verify this solution. Please try again or solve the problem manually.\"}"
VERIFIER_DEFAULT ==
  <<"{","\"","i","s","_","c","o","r","r","e","c","t","\"",":"," ","f","a","l","s","e",","," ",
    "\"","i","s","s","u","e","s","\"",":"," ","[","\"","V","e","r","i","f","i","e","r"," ","m",
    "o","d","e","l"," ","f","a","i","l","e","d"," ","t","o"," ","e","v","a","l","u","a","t","e",
    " ","t","h","e"," ","s","o","l","u","t","i","o","n",".","\"","]",","," ","\"","i","m","p",
    "r","o","v","e","d","_","a","n","s","w","e","r","\"",":"," ","\"","T","h","e"," ","s","y",
    "s","t","e","m"," ","c","o","u","l","d"," ","n","o","t"," ","v","e","r","i","f","y"," ","t",
    "h","i","s"," ","s","o","l","u","t","i","o","n","."," ","P","l","e","a","s","e"," ","t","r",
    "y"," ","a","g","a","i","n"," ","o","r"," ","s","o","l","v","e"," ","t","h","e"," ","p","r",
    "o","b","l","e","m"," ","m","a","n","u","a","l","l","y",".","\"","}">>

\* "The system could not verify this solution. Please try again or solve the problem manually."
VERIFIER_DEFAULT_ANSWER ==
  <<"T","h","e"," ","s","y","s","t","e","m"," ","c","o","u","l","d"," ","n","o","t"," ","v","e",
    "r","i","f","y"," ","t","h","i","s"," ","s","o","l","u","t","i","o","n","."," ","P","l","e",
    "a","s","e"," ","t","r","y"," ","a","g","a","i","n"," ","o","r"," ","s","o","l","v","e"," ",
    "t","h","e"," ","p","r","o","b","l","e","m"," ","m","a","n","u","a","l","l","y",".">>

\* "{\"is_correct\": true, \"improved_answer\": \"\"}"
V_TRUE ==
  <<"{","\"","i","s","_","c","o","r","r","e","c","t","\"",":"," ","t","r","u","e",","," ","\"",
    "i","m","p","r","o","v","e","d","_","a","n","s","w","e","r","\"",":"," ","\"","\"","}">>

\* "{\"is_correct\": true, \"improved_answer\": \"x = 4\"}"
V_TRUE_IMPROVED ==
  <<"{","\"","i","s","_","c","o","r","r","e","c","t","\"",":"," ","t","r","u","e",","," ","\"",
    "i","m","p","r","o","v","e","d","_","a","n","s","w","e","r","\"",":"," ","\"","x"," ","=",
    " ","4","\"","}">>

\* "{\"is_correct\": false}"
V_FALSE ==
  <<"{","\"","i","s","_","c","o","r","r","e","c","t","\"",":"," ","f","a","l","s","e","}">>

\* "{\"is_correct\": false, \"improved_answer\": \" x = 2 \"}"
V_FALSE_IMPROVED ==
  <<"{","\"","i","s","_","c","o","r","r","e","c","t","\"",":"," ","f","a","l","s","e",","," ",
    "\"","i","m","p","r","o","v","e","d","_","a","n","s","w","e","r","\"",":"," ","\""," ","x",
    " ","="," ","2"," ","\"","}">>

\* "{\"issues\": []}"
V_NO_FIELD ==
  <<"{","\"","i","s","s","u","e","s","\"",":"," ","[","]","}">>

\* "Looks right."
V_PROSE ==
  <<"L","o","o","k","s"," ","r","i","g","h","t",".">>

\* "{\"is_correct\": tru"
V_BROKEN ==
  <<"{","\"","i","s","_","c","o","r","r","e","c","t","\"",":"," ","t","r","u">>

\* The backtick character (a TLA+ string cannot hold it)
BT == "backtick"

\* A fenced answer: three backticks, json, newline, {"is_correct": true}, newline,
\* three backticks
V_FENCED ==
  <<BT,BT,BT,"j","s","o","n","\n","{","\"","i","s","_","c","o","r","r","e","c","t","\"",":",
    " ","t","r","u","e","}","\n",BT,BT,BT>>

\* "{\"is_correct\": true}"
V_BARE_TRUE ==
  <<"{","\"","i","s","_","c","o","r","r","e","c","t","\"",":"," ","t","r","u","e","}">>

\* "x = 4"
A_X4 ==
  <<"x"," ","="," ","4">>

\* " x = 2 "
A_X2_RAW ==
  <<" ","x"," ","="," ","2"," ">>

\* "{\"is_correct\": true, \"improved_answer\": \"as an AI x = 4\"}"
V_LEAK ==
  <<"{","\"","i","s","_","c","o","r","r","e","c","t","\"",":"," ","t","r","u","e",","," ","\"",
    "i","m","p","r","o","v","e","d","_","a","n","s","w","e","r","\"",":"," ","\"","a","s"," ",
    "a","n"," ","A","I"," ","x"," ","="," ","4","\"","}">>

\* "as an AI x = 4"
A_LEAK ==
  <<"a","s"," ","a","n"," ","A","I"," ","x"," ","="," ","4">>

\* "{\"is_correct\": true, \"improved_answer\": \"  \"}"
V_BLANK_IMPROVED ==
  <<"{","\"","i","s","_","c","o","r","r","e","c","t","\"",":"," ","t","r","u","e",","," ","\"",
    "i","m","p","r","o","v","e","d","_","a","n","s","w","e","r","\"",":"," ","\""," "," ","\"",
    "}">>

\* A parsed JSON object, as far as the pipeline reads it: is_correct is "true", "false"
\* or "absent" (no such key); improved_answer holds the string, {} when there is no such key
JsonObject(is_correct, improved_answer) ==
  [is_correct |-> is_correct, improved_answer |-> improved_answer]

\* json.loads on the texts of this model: the valid JSON texts and their values.
\* Every other text of the model is not JSON and makes json.loads raise.
JsonTable ==
  { <<VERIFIER_DEFAULT, JsonObject("false", {VERIFIER_DEFAULT_ANSWER})>>,
    <<V_TRUE,           JsonObject("true", {<<>>})>>,
    <<V_TRUE_IMPROVED,  JsonObject("true", {A_X4})>>,
    <<V_FALSE,          JsonObject("false", {})>>,
    <<V_FALSE_IMPROVED, JsonObject("false", {A_X2_RAW})>>,
    <<V_NO_FIELD,       JsonObject("absent", {})>>,
    <<V_BARE_TRUE,      JsonObject("true", {})>>,
    <<V_LEAK,           JsonObject("true", {A_LEAK})>>,
    <<V_BLANK_IMPROVED, JsonObject("true", {<<" ", " ">>})>> }

JsonValid(text) == \E row \in JsonTable : row[1] = text

JsonLoads(text) == (CHOOSE row \in JsonTable : row[1] = text)[2]

\* bool(data.get("is_correct", True)) for a parsed object
IsCorrectOf(data) == data.is_correct # "false"

-----------------------------------------------------------------------------
(* verifier_node and the conditional edge after it *)

\* The prefix _strip_code_fence tests for, as the source has it
FENCE_PREFIX == <<BT,BT,BT,BT,BT,BT>>

JSON_TAG == <<"j","s","o","n">>

_strip_code_fence(text) ==
  LET t == Strip(text)
  IN  IF StartsWith(t, FENCE_PREFIX)
        THEN LET inner == Strip(SubSeq(t, 4, Len(t) - 3))
             IN  IF StartsWith(Lower(inner), JSON_TAG)
                   THEN Strip(SubSeq(inner, 5, Len(inner)))
                   ELSE inner
        ELSE t

\* Faulty variant: a string response is stored without the two checks
VerificationOf_unchecked(o) ==
  IF o.kind # "content" THEN VERIFIER_DEFAULT ELSE _strip_code_fence(o.content)

\* Faulty variant: the failure default carries no improved_answer
VerificationOf_bare_default(o) ==
  IF o.kind # "content" THEN V_FALSE
  ELSE LET content == _strip_code_fence(o.content)
       IN  IF ~StartsWith(content, <<"{">>) THEN V_FALSE
           ELSE IF ~JsonValid(content) THEN V_FALSE
           ELSE content

\* The JSON string verifier_node stores for an outcome of llm.ainvoke:
\*   raise, non_string (content is not a str), content (a str)
VerificationOf(o) ==
  IF o.kind # "content" THEN VERIFIER_DEFAULT
  ELSE LET content == _strip_code_fence(o.content)
       IN  IF ~StartsWith(content, <<"{">>) THEN VERIFIER_DEFAULT
           ELSE IF ~JsonValid(content) THEN VERIFIER_DEFAULT
           ELSE content

\* Faulty variant: loop_count incremented after every verification
LoopCountAfter_every_verdict(stored, count) == count + 1

\* loop_count after verifier_node stored the verification
LoopCountAfter(stored, count) ==
  LET incorrect == IF JsonValid(stored) THEN ~IsCorrectOf(JsonLoads(stored)) ELSE FALSE
  IN  IF incorrect THEN count + 1 ELSE count

MAX_VERIFICATION_LOOPS == 2

\* is_correct as verification_loop reads it from state["verification"]
LoopIsCorrect(raw) ==
  IF JsonValid(raw) THEN IsCorrectOf(JsonLoads(raw)) ELSE TRUE

\* Faulty variant: the edge without the cap test
verification_loop_uncapped(raw, count) ==
  IF LoopIsCorrect(raw) THEN "output_guardrail" ELSE "mcp_search"

\* Faulty variant: the cap test with > in place of >=
verification_loop_late_cap(raw, count) ==
  IF count > MAX_VERIFICATION_LOOPS THEN "output_guardrail"
  ELSE IF LoopIsCorrect(raw) THEN "output_guardrail"
  ELSE "mcp_search"

\* Faulty variant: an incorrect verdict goes back to reasoning without a new search
verification_loop_retry_reasoning(raw, count) ==
  IF count >= MAX_VERIFICATION_LOOPS THEN "output_guardrail"
  ELSE IF LoopIsCorrect(raw) THEN "output_guardrail"
  ELSE "reasoning"

\* Faulty variant: an incorrect verdict goes back to the local retrieval
verification_loop_retry_local(raw, count) ==
  IF count >= MAX_VERIFICATION_LOOPS THEN "output_guardrail"
  ELSE IF LoopIsCorrect(raw) THEN "output_guardrail"
  ELSE "local_rag"

\* Conditional edge verifier -> mcp_search | output_guardrail
verification_loop(raw, count) ==
  IF count >= MAX_VERIFICATION_LOOPS THEN "output_guardrail"
  ELSE IF LoopIsCorrect(raw) THEN "output_guardrail"
  ELSE "mcp_search"

\* Bound of the model: verifications per run (the code itself never reaches it)
MaxVerifications == 4

VerifierNode(E) ==
  /\ pc = "verifier"
  /\ Len(verdicts) < MaxVerifications
  /\ \E o \in E.verifier :
       LET stored == VerificationOf(o)
           count  == LoopCountAfter(stored, loop_count)
           next   == verification_loop(stored, count)
       IN  /\ calls' = Append(calls, Call("verifier", o))
           /\ IF o.kind = "construct_error"
                THEN \* the exception leaves the node: graph.ainvoke raises
                     /\ pc' = "crashed"
                     /\ UNCHANGED <<verification, loop_count, keys, verdicts, crossed>>
                ELSE /\ verification' = stored
                     /\ loop_count' = count
                     /\ keys' = keys \cup (IF count # loop_count
                                            THEN {"verification", "loop_count"}
                                            ELSE {"verification"})
                     /\ pc' = next
                     /\ verdicts' = Append(verdicts, LoopIsCorrect(stored))
                     /\ crossed' = IF next = "mcp_search" THEN crossed + 1 ELSE crossed
  /\ trace' = Append(trace, "verifier")
  /\ UNCHANGED <<query, is_safe, is_math, broken_queries, local_results, web_results,
                 reranked_results, reasoning_output, final_output, needs_web_fallback,
                 feedback, logged, runNo>>
  /\ UNCHANGED sessions

-----------------------------------------------------------------------------
(* output_node *)

Digits == {"0", "1", "2", "3", "4", "5", "6", "7", "8", "9"}

\* \w of the re module, on the characters of this model
WordChars ==
  DOMAIN UpperToLower \cup {UpperToLower[c] : c \in DOMAIN UpperToLower} \cup Digits \cup {"_"}

THINK_OPEN == <<"<","t","h","i","n","k",">">>
THINK_CLOSE == <<"<","/","t","h","i","n","k",">">>

MinOf(S) == CHOOSE m \in S : \A n \in S : m <= n

\* THINK_PATTERN.sub("", text): <think>.*?</think>, DOTALL | IGNORECASE, leftmost
\* match first, each match ending at the nearest closing tag
RECURSIVE RemoveThink(_)
RemoveThink(t) ==
  LET lt     == Lower(t)
      closes == {j \in 1..Len(t) : MatchAt(lt, THINK_CLOSE, j)}
      opens  == {i \in 1..Len(t) : /\ MatchAt(lt, THINK_OPEN, i)
                                   /\ \E j \in closes : j >= i + Len(THINK_OPEN)}
  IN  IF opens = {} THEN t
      ELSE LET i == MinOf(opens)
               j == MinOf({k \in closes : k >= i + Len(THINK_OPEN)})
           IN  SubSeq(t, 1, i - 1)
               \o RemoveThink(SubSeq(t, j + Len(THINK_CLOSE), Len(t)))

_strip_think_tags(text) ==
  IF text = <<>> THEN <<>> ELSE Strip(RemoveThink(text))

\* FORBIDDEN_PATTERNS, each \bphrase\b, matched with IGNORECASE (phrases in lower case)
FORBIDDEN_PATTERNS ==
  << <<"a","s"," ","a","n"," ","a","i">>,
     <<"i"," ","a","m"," ","u","n","a","b","l","e"," ","t","o">>,
     <<"s","y","s","t","e","m"," ","p","r","o","m","p","t">>,
     <<"d","e","v","e","l","o","p","e","r"," ","m","e","s","s","a","g","e">>,
     <<"o","p","e","n","a","i"," ","p","o","l","i","c","i","e","s">>,
     <<"r","e","a","s","o","n","i","n","g"," ","p","r","o","c","e","s","s">>,
     <<"c","h","a","i","n"," ","o","f"," ","t","h","o","u","g","h","t">> >>

\* re.sub(r"\bphrase\b", "", t, flags=re.IGNORECASE)
RECURSIVE RemovePhrase(_, _)
RemovePhrase(t, phrase) ==
  LET lt   == Lower(t)
      n    == Len(phrase)
      hits == {i \in 1..Len(t) :
                 /\ MatchAt(lt, phrase, i)
                 /\ (i = 1 \/ t[i - 1] \notin WordChars)
                 /\ (i + n > Len(t) \/ t[i + n] \notin WordChars)}
  IN  IF hits = {} THEN t
      ELSE LET i == MinOf(hits)
           IN  SubSeq(t, 1, i - 1) \o RemovePhrase(SubSeq(t, i + n, Len(t)), phrase)

RECURSIVE RemovePhrases(_, _)
RemovePhrases(t, phrases) ==
  IF phrases = <<>> THEN t
  ELSE RemovePhrases(RemovePhrase(t, Head(phrases)), Tail(phrases))

\* Length of the run of newlines t starts with
RECURSIVE NewlineRun(_)
NewlineRun(t) ==
  IF t # <<>> /\ Head(t) = "\n" THEN 1 + NewlineRun(Tail(t)) ELSE 0

\* MULTI_NL_PATTERN.sub("\n\n", text): every run of three or more newlines becomes two
RECURSIVE CollapseNewlines(_)
CollapseNewlines(t) ==
  LET starts == {i \in 1..(Len(t) - 2) : t[i] = "\n" /\ t[i + 1] = "\n" /\ t[i + 2] = "\n"}
  IN  IF starts = {} THEN t
      ELSE LET i == MinOf(starts)
               r == NewlineRun(SubSeq(t, i, Len(t)))
           IN  SubSeq(t, 1, i - 1) \o <<"\n", "\n">>
               \o CollapseNewlines(SubSeq(t, i + r, Len(t)))

_sanitize_output(text) ==
  IF text = <<>> THEN <<>>
  ELSE Strip(CollapseNewlines(RemovePhrases(text, FORBIDDEN_PATTERNS)))

\* The cleaned reasoning text
CleanedReasoning(reasoning) ==
  _sanitize_output(_strip_think_tags(Strip(reasoning)))

\* improved_answer as output_node takes it from the stored verification: the stripped
\* string, <<>> when there is none
ImprovedAnswer(raw_verification) ==
  IF ~JsonValid(raw_verification) THEN <<>>
  ELSE LET v == JsonLoads(raw_verification)
       IN  IF v.improved_answer = {} THEN <<>>
           ELSE Strip(CHOOSE a \in v.improved_answer : TRUE)

\* Faulty variant: the improved answer of the verifier is never used
FinalOutputOf_ignores_improved(reasoning, raw_verification) ==
  Strip(CleanedReasoning(reasoning))

\* state["final_output"]
FinalOutputOf(reasoning, raw_verification) ==
  LET cleaned  == CleanedReasoning(reasoning)
      improved == ImprovedAnswer(raw_verification)
  IN  Strip(IF improved # <<>> THEN improved ELSE cleaned)

OutputNode ==
  /\ pc = "output_guardrail"
  /\ final_output' = FinalOutputOf(reasoning_output, verification)
  /\ keys' = keys \cup {"final_output"}
  /\ pc' = "feedback"
  /\ trace' = Append(trace, "output_guardrail")
  /\ UNCHANGED <<query, is_safe, is_math, broken_queries, local_results, web_results,
                 reranked_results, reasoning_output, verification, needs_web_fallback,
                 loop_count, feedback, logged, runNo, verdicts, crossed, calls>>
  /\ UNCHANGED sessions

-----------------------------------------------------------------------------
(* feedback_node *)

\* What happens at the feedback sink:
\*   evaluator_ok  whether get_dspy_evaluator().evaluate returned
\*   write_ok      whether log_feedback appended the record
FeedbackOutcome(evaluator_ok, write_ok) ==
  [evaluator_ok |-> evaluator_ok, write_ok |-> write_ok]

\* Faulty variant: the feedback stage hands the run back to the external search
edge_from_feedback_to_search == "mcp_search"

\* graph.add_edge("feedback", END)
edge_from_feedback == "END"

FeedbackNode(E) ==
  /\ pc = "feedback"
  /\ IF Strip(final_output) = <<>>
       THEN logged' = "skipped"
       ELSE \E o \in E.feedback :
              logged' = IF ~o.write_ok THEN "write_failed"
                        ELSE IF o.evaluator_ok THEN "logged_with_report"
                        ELSE "logged_without_report"
  /\ pc' = edge_from_feedback
  /\ trace' = Append(trace, "feedback")
  /\ UNCHANGED <<stateFields, runNo, verdicts, crossed, calls>>
  /\ UNCHANGED sessions

-----------------------------------------------------------------------------
(* The inputs of the pipeline specification *)

\* "solve x"
Q_SOLVE == <<"s","o","l","v","e"," ","x">>
\* "find x and y"
Q_TWO == <<"f","i","n","d"," ","x"," ","a","n","d"," ","y">>
\* "hack sum"
Q_HACK == <<"h","a","c","k"," ","s","u","m">>
\* "hi"
Q_HI == <<"h","i">>
\* " "
Q_BLANK == <<" ">>

\* "Final answer: 4"
R_ANSWER ==
  <<"F","i","n","a","l"," ","a","n","s","w","e","r",":"," ","4">>

\* "<think>internal</think>Final answer: 4"
R_THINK ==
  <<"<","t","h","i","n","k",">","i","n","t","e","r","n","a","l","<","/","t","h","i","n","k",">",
    "F","i","n","a","l"," ","a","n","s","w","e","r",":"," ","4">>

\* A raw hit of the local index: {score, payload: {problem, solution}}
RawHit(score, problem, solution) ==
  [score |-> score, problem |-> problem, solution |-> solution]

\* A hit of the web search: {title, url, content}
WebHit(title, url, content) == [title |-> title, url |-> url, content |-> content]

HIT_STRONG == RawHit(95, <<"x","^","2","=","1","6">>, <<"x","=","4">>)
HIT_WEAK == RawHit(50, <<"y","=","1">>, <<>>)
WEB_A == WebHit(<<"A">>, <<"u",".","a">>, <<"r","o","o","t","s">>)
WEB_B == WebHit(<<>>, <<>>, <<"s","q","r","t">>)

PipelineEnv ==
  [queries      |-> {Q_SOLVE, Q_TWO, Q_HACK, Q_HI, Q_BLANK},
   llm_split    |-> {LlmSplitOutcome("raise", <<>>),
                     LlmSplitOutcome("list", << <<"x">>, <<" ">>, <<"y">> >>)},
   tool         |-> {ToolOutcome("raise", <<>>),
                     ToolOutcome("error", <<>>),
                     ToolOutcome("results", <<HIT_STRONG>>),
                     ToolOutcome("results", <<HIT_WEAK>>)},
   bridge       |-> {ProcOutcome("launch_error", "empty", <<>>),
                     ProcOutcome("timeout", "empty", <<>>),
                     ProcOutcome("exit_nonzero", "error_dict", <<>>),
                     ProcOutcome("exit_zero", "invalid", <<>>),
                     ProcOutcome("exit_zero", "results_dict", <<WEB_A>>)},
   scorer_kinds |-> {"raise", "scores"},
   score_vals   |-> {1, 2},
   reasoning    |-> {LlmOutcome("construct_error", <<>>), LlmOutcome("raise", <<>>),
                     LlmOutcome("content", R_THINK)},
   verifier     |-> {LlmOutcome("construct_error", <<>>), LlmOutcome("raise", <<>>),
                     LlmOutcome("content", V_TRUE),
                     LlmOutcome("content", V_FALSE_IMPROVED),
                     LlmOutcome("content", V_NO_FIELD)},
   feedback     |-> {FeedbackOutcome(TRUE, TRUE), FeedbackOutcome(FALSE, TRUE)}]

-----------------------------------------------------------------------------
(* The graph: one run of graph.ainvoke({"query": q}) on a fresh thread *)

\* The state a fresh thread starts from: only "query" is present. A variable whose key
\* is absent holds the default every state.get of that key falls back to.
FreshState ==
  /\ keys = {"query"}
  /\ is_safe = FALSE
  /\ is_math = TRUE
  /\ broken_queries = <<>>
  /\ local_results = <<>>
  /\ web_results = <<>>
  /\ reranked_results = <<>>
  /\ reasoning_output = <<>>
  /\ verification = <<>>
  /\ final_output = <<>>
  /\ needs_web_fallback = FALSE
  /\ loop_count = 0
  /\ feedback = <<>>

\* Faulty variant: every CLI session uses one and the same thread_id
thread_id_shared(session) == <<"cli-session", 1>>

\* thread_id = f"cli-session-{uuid.uuid4().hex[:8]}": one key per CLI session
thread_id(session) == <<"cli-session", session>>

\* The CLI sessions of the model
Sessions == {1, 2}

\* The MemorySaver has no checkpoint for a thread_id
NoCheckpoint == {}

\* The checkpointer before any run, and no other session: `store` maps a
\* thread_id to the set of the channel values last saved under it, `parked` holds a
\* run of another session that waits at an await, `pending` the sessions
\* that have not invoked the graph yet, `interleaved` whether the event loop
\* has switched between two runs that were both under way
OneSession ==
  [cur     |-> thread_id(1),
   store   |-> [k \in {thread_id(n) : n \in Sessions} |-> NoCheckpoint],
   parked  |-> <<>>,
   pending |-> {},
   interleaved |-> FALSE]

RunStart ==
  /\ pc = "input_guardrail"
  /\ logged = "none"
  /\ trace = <<>>
  /\ verdicts = <<>>
  /\ crossed = 0
  /\ calls = <<>>

InitOf(queries) ==
  /\ query \in queries
  /\ FreshState
  /\ RunStart
  /\ runNo = 1
  /\ sessions = OneSession

Init == InitOf(PipelineEnv.queries)

\* The nodes of the graph
Nodes ==
  {"input_guardrail", "router", "query_breaker", "local_rag", "mcp_search", "reranker",
   "reasoning", "verifier", "output_guardrail", "feedback"}

\* One node of the graph runs
Step(E) ==
  \/ InputGuardrailNode
  \/ RouterNode
  \/ QueryBreakerNode(E)
  \/ LocalRagNode(E)
  \/ McpSearchNode(E)
  \/ HybridRerankerNode(E)
  \/ ReasoningNode(E)
  \/ VerifierNode(E)
  \/ OutputNode
  \/ FeedbackNode(E)

Next == Step(PipelineEnv)

Spec == Init /\ [][Next]_vars

-----------------------------------------------------------------------------
(* A session: several runs on one thread_id, as the CLI loop issues them *)

\* Bound of the model: runs per thread
MaxRuns == 2

\* Bound of the model: pieces a first query is put together from
MaxPieces == 2

\* The pieces: unsafe and math keywords in both cases, halves of an unsafe keyword,
\* a word that is neither, and white space
Pieces ==
  { <<" ">>,
    <<"h","a","c","k">>,
    <<"H","a","C","k">>,
    <<"s","u","m">>,
    <<"S","U","M">>,
    <<"x","^">>,
    <<"h","i">>,
    <<"b","o">>,
    <<"m","b">> }

RECURSIVE PieceQueries(_)
PieceQueries(n) ==
  IF n = 0 THEN {<<>>}
  ELSE LET shorter == PieceQueries(n - 1)
       IN  shorter \cup {a \o p : a \in shorter, p \in Pieces}

\* "HaCk sum"
Q_HACK_UPPER == <<"H","a","C","k"," ","s","u","m">>

SessionEnv ==
  [queries      |-> {Q_SOLVE, Q_HI, Q_HACK_UPPER},
   llm_split    |-> {LlmSplitOutcome("raise", <<>>)},
   tool         |-> {ToolOutcome("results", <<HIT_WEAK>>),
                     ToolOutcome("results", <<HIT_STRONG>>)},
   bridge       |-> {ProcOutcome("exit_zero", "results_dict", <<WEB_B>>)},
   scorer_kinds |-> {"scores"},
   score_vals   |-> {1},
   reasoning    |-> {LlmOutcome("content", R_ANSWER)},
   verifier     |-> {LlmOutcome("content", V_TRUE), LlmOutcome("content", V_FALSE)},
   feedback     |-> {FeedbackOutcome(TRUE, TRUE)}]

\* The next graph.ainvoke({"query": q}, thread_id) of the CLI loop: the checkpointer
\* hands the thread's state back and the input overwrites "query" alone.
Reinvoke(q) ==
  /\ pc \in {"END", "crashed"}
  /\ runNo < MaxRuns
  /\ query' = q
  /\ pc' = "input_guardrail"
  /\ runNo' = runNo + 1
  /\ logged' = "none"
  /\ trace' = <<>>
  /\ verdicts' = <<>>
  /\ crossed' = 0
  /\ calls' = <<>>
  /\ UNCHANGED <<keys, is_safe, is_math, broken_queries, local_results, web_results,
                 reranked_results, reasoning_output, verification, final_output,
                 needs_web_fallback, loop_count, feedback>>
  /\ UNCHANGED sessions

SessionInit == InitOf(PieceQueries(MaxPieces))

SessionNext ==
  \/ Step(SessionEnv)
  \/ \E q \in SessionEnv.queries : Reinvoke(q)

SessionSpec == SessionInit /\ [][SessionNext]_vars

-----------------------------------------------------------------------------
(* Local retrieval over the hit lists the index can return *)

\* Bound of the model: hits the index returns
MaxHits == 2

RagScores == {79, 80, 81}

RagHits == {RawHit(s, p, <<>>) : s \in RagScores, p \in {<<"p">>, <<" ">>}}

\* The index returns its hits sorted by score, best first
RECURSIVE HitLists(_)
HitLists(n) ==
  IF n = 0 THEN {<<>>}
  ELSE LET shorter == HitLists(n - 1)
       IN  shorter \cup {Append(l, h) : l \in shorter, h \in RagHits}

SortedHitLists(n) ==
  {l \in HitLists(n) : \A i \in 1..(Len(l) - 1) : l[i].score >= l[i + 1].score}

RagEnv ==
  [queries      |-> {Q_SOLVE},
   llm_split    |-> {LlmSplitOutcome("no_key", <<>>)},
   tool         |-> {ToolOutcome("raise", <<>>), ToolOutcome("error", <<>>)}
                    \cup {ToolOutcome("results", l) : l \in SortedHitLists(MaxHits)},
   bridge       |-> {ProcOutcome("timeout", "empty", <<>>),
                     ProcOutcome("exit_zero", "results_dict", <<WEB_B>>)},
   scorer_kinds |-> {"scores"},
   score_vals   |-> {1},
   reasoning    |-> {LlmOutcome("content", R_ANSWER)},
   verifier     |-> {LlmOutcome("content", V_TRUE), LlmOutcome("content", V_FALSE)},
   feedback     |-> {FeedbackOutcome(TRUE, TRUE)}]

RagInit == InitOf(RagEnv.queries)

RagNext == Step(RagEnv)

RagSpec == RagInit /\ [][RagNext]_vars

-----------------------------------------------------------------------------
(* The merger over small candidate pools with every order of scores *)

HIT_GOOD == RawHit(85, <<"z","=","2">>, <<>>)

\* A search hit without title, url and content
WEB_BLANK == WebHit(<<>>, <<" ">>, <<>>)

RerankEnv ==
  [queries      |-> {Q_SOLVE},
   llm_split    |-> {LlmSplitOutcome("no_key", <<>>)},
   tool         |-> {ToolOutcome("raise", <<>>),
                     ToolOutcome("results", <<HIT_STRONG>>),
                     ToolOutcome("results", <<HIT_STRONG, HIT_GOOD>>),
                     ToolOutcome("results", <<HIT_WEAK>>)},
   bridge       |-> {ProcOutcome("timeout", "empty", <<>>),
                     ProcOutcome("exit_zero", "results_dict", <<WEB_A>>),
                     ProcOutcome("exit_zero", "results_dict", <<WEB_A, WEB_BLANK, WEB_B>>)},
   scorer_kinds |-> {"raise", "scores"},
   score_vals   |-> {1, 2},
   reasoning    |-> {LlmOutcome("content", R_ANSWER)},
   verifier     |-> {LlmOutcome("content", V_TRUE), LlmOutcome("content", V_FALSE)},
   feedback     |-> {FeedbackOutcome(TRUE, TRUE)}]

RerankInit == InitOf(RerankEnv.queries)

RerankNext == Step(RerankEnv)

RerankSpec == RerankInit /\ [][RerankNext]_vars

-----------------------------------------------------------------------------
(* The merger over pools larger than RERANK_TOP_K *)

\* Bound of the model: hits one retrieval or one search returns
MaxPool == 9

ItemTags == <<"a", "b", "c", "d", "e", "f", "g", "h", "i", "j", "k", "l">>

\* n local hits of one score, each with a problem text of its own
ManyHits(n, score) == [i \in 1..n |-> RawHit(score, <<"p", ItemTags[i]>>, <<>>)]

\* n search hits, each with a content of its own
ManyWebHits(n) == [i \in 1..n |-> WebHit(<<>>, <<>>, <<"w", ItemTags[i]>>)]

TopKEnv ==
  [queries      |-> {Q_SOLVE},
   llm_split    |-> {LlmSplitOutcome("no_key", <<>>)},
   tool         |-> {ToolOutcome("results", ManyHits(MaxPool, 90)),
                     ToolOutcome("results", ManyHits(MaxPool, 50)),
                     ToolOutcome("results", <<HIT_STRONG>>)},
   bridge       |-> {ProcOutcome("timeout", "empty", <<>>),
                     ProcOutcome("exit_zero", "results_dict", ManyWebHits(MaxPool))},
   scorer_kinds |-> {"raise", "scores"},
   score_vals   |-> {1},
   reasoning    |-> {LlmOutcome("content", R_ANSWER)},
   verifier     |-> {LlmOutcome("content", V_TRUE), LlmOutcome("content", V_FALSE)},
   feedback     |-> {FeedbackOutcome(TRUE, TRUE)}]

TopKInit == InitOf(TopKEnv.queries)

TopKNext == Step(TopKEnv)

TopKSpec == TopKInit /\ [][TopKNext]_vars

-----------------------------------------------------------------------------
(* The verifier over every kind of response *)

VerifierEnv ==
  [queries      |-> {Q_SOLVE},
   llm_split    |-> {LlmSplitOutcome("no_key", <<>>)},
   tool         |-> {ToolOutcome("results", <<HIT_STRONG>>)},
   bridge       |-> {ProcOutcome("timeout", "empty", <<>>),
                     ProcOutcome("exit_zero", "results_dict", <<WEB_A>>)},
   scorer_kinds |-> {"scores"},
   score_vals   |-> {1},
   reasoning    |-> {LlmOutcome("content", R_ANSWER)},
   verifier     |-> {LlmOutcome("raise", <<>>),
                     LlmOutcome("non_string", <<>>),
                     LlmOutcome("content", V_PROSE),
                     LlmOutcome("content", V_BROKEN),
                     LlmOutcome("content", V_FENCED),
                     LlmOutcome("content", V_TRUE),
                     LlmOutcome("content", V_FALSE_IMPROVED)},
   feedback     |-> {FeedbackOutcome(TRUE, TRUE)}]

VerifierInit == InitOf(VerifierEnv.queries)

VerifierNext == Step(VerifierEnv)

VerifierSpec == VerifierInit /\ [][VerifierNext]_vars

-----------------------------------------------------------------------------
(* The query breaker over queries with connectives and every result of the call *)

\* "find x AND y"
Q_TWO_UPPER == <<"f","i","n","d"," ","x"," ","A","N","D"," ","y">>
\* "find x then y and z"
Q_THREE == <<"f","i","n","d"," ","x"," ","t","h","e","n"," ","y"," ","a","n","d"," ","z">>

BreakerEnv ==
  [queries      |-> {Q_SOLVE, Q_TWO, Q_TWO_UPPER, Q_THREE},
   llm_split    |-> {LlmSplitOutcome("no_key", <<>>),
                     LlmSplitOutcome("raise", <<>>),
                     LlmSplitOutcome("invalid_json", <<>>),
                     LlmSplitOutcome("non_list", <<>>),
                     LlmSplitOutcome("list_non_str", <<>>),
                     LlmSplitOutcome("list", <<>>),
                     LlmSplitOutcome("list", << <<" ">> >>),
                     LlmSplitOutcome("list", << <<"x">>, <<" ">>, <<" ","y">> >>)},
   tool         |-> {ToolOutcome("raise", <<>>), ToolOutcome("results", <<HIT_STRONG>>)},
   bridge       |-> {ProcOutcome("exit_zero", "results_dict", <<WEB_A>>)},
   scorer_kinds |-> {"scores"},
   score_vals   |-> {1},
   reasoning    |-> {LlmOutcome("content", R_ANSWER)},
   verifier     |-> {LlmOutcome("content", V_TRUE)},
   feedback     |-> {FeedbackOutcome(TRUE, TRUE)}]

BreakerInit == InitOf(BreakerEnv.queries)

BreakerNext == Step(BreakerEnv)

BreakerSpec == BreakerInit /\ [][BreakerNext]_vars

-----------------------------------------------------------------------------
(* The output node over reasoning texts and verifications of every shape *)

\* "<thi<think>x</think>nk>y</think>4"
R_NESTED ==
  <<"<","t","h","i","<","t","h","i","n","k",">","x","<","/","t","h","i","n","k",">","n","k",">",
    "y","<","/","t","h","i","n","k",">","4">>

\* "As an AI,\n\n\n\nx = 4"
R_PHRASE ==
  <<"A","s"," ","a","n"," ","A","I",",","\n","\n","\n","\n","x"," ","="," ","4">>

OutputEnv ==
  [queries      |-> {Q_SOLVE},
   llm_split    |-> {LlmSplitOutcome("no_key", <<>>)},
   tool         |-> {ToolOutcome("results", <<HIT_STRONG>>)},
   bridge       |-> {ProcOutcome("exit_zero", "results_dict", <<WEB_A>>)},
   scorer_kinds |-> {"scores"},
   score_vals   |-> {1},
   reasoning    |-> {LlmOutcome("raise", <<>>),
                     LlmOutcome("content", R_ANSWER),
                     LlmOutcome("content", R_THINK),
                     LlmOutcome("content", R_NESTED),
                     LlmOutcome("content", R_PHRASE)},
   verifier     |-> {LlmOutcome("content", V_PROSE),
                     LlmOutcome("content", V_TRUE),
                     LlmOutcome("content", V_TRUE_IMPROVED),
                     LlmOutcome("content", V_FALSE),
                     LlmOutcome("content", V_FALSE_IMPROVED),
                     LlmOutcome("content", V_LEAK),
                     LlmOutcome("content", V_BLANK_IMPROVED)},
   feedback     |-> {FeedbackOutcome(TRUE, TRUE), FeedbackOutcome(FALSE, TRUE),
                     FeedbackOutcome(TRUE, FALSE), FeedbackOutcome(FALSE, FALSE)}]

OutputInit == InitOf(OutputEnv.queries)

OutputNext == Step(OutputEnv)

OutputSpec == OutputInit /\ [][OutputNext]_vars

-----------------------------------------------------------------------------
(* The external search: every way the bridge subprocess can end, and retries
   whose searches return different hits *)

SearchEnv ==
  [queries      |-> {Q_SOLVE},
   llm_split    |-> {LlmSplitOutcome("no_key", <<>>)},
   tool         |-> {ToolOutcome("results", <<HIT_STRONG>>),
                     ToolOutcome("results", <<HIT_WEAK>>)},
   bridge       |-> {ProcOutcome("timeout", "empty", <<>>),
                     ProcOutcome("exit_nonzero", "empty", <<>>),
                     ProcOutcome("exit_nonzero", "error_dict", <<>>),
                     ProcOutcome("exit_nonzero", "invalid", <<>>),
                     ProcOutcome("exit_zero", "empty", <<>>),
                     ProcOutcome("exit_zero", "invalid", <<>>),
                     ProcOutcome("exit_zero", "error_dict", <<>>),
                     ProcOutcome("exit_zero", "json_list", <<>>),
                     ProcOutcome("exit_zero", "results_dict", <<>>),
                     ProcOutcome("exit_zero", "results_dict", <<WEB_A>>),
                     ProcOutcome("exit_zero", "results_dict", <<WEB_B, WEB_A>>)},
   scorer_kinds |-> {"scores"},
   score_vals   |-> {1},
   reasoning    |-> {LlmOutcome("content", R_ANSWER)},
   verifier     |-> {LlmOutcome("content", V_TRUE), LlmOutcome("content", V_FALSE)},
   feedback     |-> {FeedbackOutcome(TRUE, TRUE)}]

SearchInit == InitOf(SearchEnv.queries)

SearchNext == Step(SearchEnv)

SearchSpec == SearchInit /\ [][SearchNext]_vars

-----------------------------------------------------------------------------
(* Two CLI sessions whose runs interleave at the awaits between the nodes *)

\* The channel values of the running graph, as the checkpointer saves them
Channels ==
  [keys |-> keys, query |-> query, is_safe |-> is_safe, is_math |-> is_math,
   broken_queries |-> broken_queries, local_results |-> local_results,
   web_results |-> web_results, reranked_results |-> reranked_results,
   reasoning_output |-> reasoning_output, verification |-> verification,
   final_output |-> final_output, needs_web_fallback |-> needs_web_fallback,
   loop_count |-> loop_count, feedback |-> feedback]

\* The channels of graph.ainvoke({"query": q}) on a thread without checkpoint
FreshChannels(q) ==
  [keys |-> {"query"}, query |-> q, is_safe |-> FALSE, is_math |-> TRUE,
   broken_queries |-> <<>>, local_results |-> <<>>, web_results |-> <<>>,
   reranked_results |-> <<>>, reasoning_output |-> <<>>, verification |-> <<>>,
   final_output |-> <<>>, needs_web_fallback |-> FALSE, loop_count |-> 0,
   feedback |-> <<>>]

\* The running run, as it waits while the run of the other session executes
Suspended ==
  [pc |-> pc, ch |-> Channels, logged |-> logged, trace |-> trace,
   verdicts |-> verdicts, crossed |-> crossed, calls |-> calls, key |-> sessions.cur]

\* The event loop continues run r
Resume(r) ==
  /\ pc' = r.pc
  /\ keys' = r.ch.keys
  /\ query' = r.ch.query
  /\ is_safe' = r.ch.is_safe
  /\ is_math' = r.ch.is_math
  /\ broken_queries' = r.ch.broken_queries
  /\ local_results' = r.ch.local_results
  /\ web_results' = r.ch.web_results
  /\ reranked_results' = r.ch.reranked_results
  /\ reasoning_output' = r.ch.reasoning_output
  /\ verification' = r.ch.verification
  /\ final_output' = r.ch.final_output
  /\ needs_web_fallback' = r.ch.needs_web_fallback
  /\ loop_count' = r.ch.loop_count
  /\ feedback' = r.ch.feedback
  /\ logged' = r.logged
  /\ trace' = r.trace
  /\ verdicts' = r.verdicts
  /\ crossed' = r.crossed
  /\ calls' = r.calls
  /\ UNCHANGED runNo

\* The checkpointer after the running run saved its channels under its thread_id
\* (LangGraph saves after every node; the save is taken here, before any other
\* run can load it)
SavedStore == [sessions.store EXCEPT ![sessions.cur] = {Channels}]

\* graph.ainvoke({"query": q}, thread_id) of a session that has not run yet: the
\* channels are those saved under its thread_id, with the input written over them
Invoke(session, q) ==
  /\ session \in sessions.pending
  /\ sessions.parked = <<>>
  /\ LET key    == thread_id(session)
         saved  == SavedStore[key]
         loaded == IF saved = NoCheckpoint
                     THEN FreshChannels(q)
                     ELSE [(CHOOSE c \in saved : TRUE)
                             EXCEPT !.query = q, !.keys = @ \cup {"query"}]
     IN  /\ Resume([pc |-> "input_guardrail", ch |-> loaded, logged |-> "none",
                    trace |-> <<>>, verdicts |-> <<>>, crossed |-> 0, calls |-> <<>>])
         /\ sessions' = [cur     |-> key,
                         store   |-> SavedStore,
                         parked  |-> <<Suspended>>,
                         pending |-> sessions.pending \ {session},
                         interleaved |-> sessions.interleaved]

\* The event loop switches from the running run to the waiting one
Yield ==
  /\ sessions.parked # <<>>
  /\ sessions.parked[1].pc \in Nodes
  /\ Resume(sessions.parked[1])
  /\ sessions' = [sessions EXCEPT !.cur = sessions.parked[1].key,
                                  !.store = SavedStore,
                                  !.parked = <<Suspended>>,
                                  !.interleaved = @ \/ pc \in Nodes]

ConcurrentEnv ==
  [queries      |-> {Q_SOLVE, Q_HI},
   llm_split    |-> {LlmSplitOutcome("no_key", <<>>)},
   tool         |-> {ToolOutcome("results", <<HIT_STRONG>>),
                     ToolOutcome("results", <<HIT_WEAK>>)},
   bridge       |-> {ProcOutcome("exit_zero", "results_dict", <<WEB_A>>)},
   scorer_kinds |-> {"scores"},
   score_vals   |-> {1},
   reasoning    |-> {LlmOutcome("content", R_ANSWER)},
   verifier     |-> {LlmOutcome("content", V_TRUE), LlmOutcome("content", V_FALSE)},
   feedback     |-> {FeedbackOutcome(TRUE, TRUE)}]

ConcurrentInit ==
  /\ query \in ConcurrentEnv.queries
  /\ FreshState
  /\ RunStart
  /\ runNo = 1
  /\ sessions = [OneSession EXCEPT !.pending = Sessions \ {1}]

ConcurrentNext ==
  \/ Step(ConcurrentEnv)
  \/ \E n \in Sessions, q \in ConcurrentEnv.queries : Invoke(n, q)
  \/ Yield

ConcurrentSpec == ConcurrentInit /\ [][ConcurrentNext]_vars

-----------------------------------------------------------------------------
(* Properties *)

Last(s) == s[Len(s)]

\* The stage has executed in the current run
Ran(node) == \E i \in 1..Len(trace) : trace[i] = node

\* The current run went through output_guardrail and feedback to END
Finalized ==
  /\ pc = "END"
  /\ Len(trace) >= 2
  /\ trace[Len(trace) - 1] = "output_guardrail"
  /\ Last(trace) = "feedback"

\* The filter has rejected the query of the current run
Rejected == trace # <<>> /\ ~is_safe

\* C1: in the run of one query started from a fresh session state, loop_count never
\* exceeds the retry cap of 2, whatever the verifier's verdicts and whichever external
\* calls fail.
C1_LoopCountWithinCap == loop_count <= MAX_VERIFICATION_LOOPS

\* A run that ended with loop_count at the cap after two incorrect verdicts
C1_CapReached ==
  /\ pc = "END"
  /\ verdicts = <<FALSE, FALSE>>
  /\ loop_count = MAX_VERIFICATION_LOOPS

\* C2: every run of an accepted query reaches the finalized state (output_guardrail,
\* feedback, END) when each external call returns or fails -- a run that has left the
\* nodes of the graph is finalized -- and the verifier executes at most cap + 1 = 3
\* times.
C2_AcceptedRunFinalized ==
  /\ Len(verdicts) <= MAX_VERIFICATION_LOOPS + 1
  /\ (trace # <<>> /\ is_safe /\ pc \notin Nodes) => Finalized

\* C3: after a verification, once loop_count has reached the cap (2) the next stage is
\* output_guardrail, whether is_correct is true or false.
C3_CapOverridesCorrectness ==
  [][(pc = "verifier" /\ pc' # "verifier" /\ loop_count' >= MAX_VERIFICATION_LOOPS)
       => pc' = "output_guardrail"]_vars

\* A second run on a thread whose first run ended at the cap on an incorrect verdict:
\* its first verification is correct, loop_count is at the cap, the next stage is
\* output_guardrail
C3_AtCapEitherVerdict ==
  /\ runNo = 2
  /\ verdicts = <<TRUE>>
  /\ loop_count = MAX_VERIFICATION_LOOPS
  /\ Last(trace) = "verifier"
  /\ pc = "output_guardrail"

\* C4: loop_count is incremented only for an incorrect verdict below the cap and every
\* increment is followed by a loop back to external search, so that in every state of a
\* run loop_count equals the number of retry-triggered external searches of that run.
C4_LoopCountCountsRetries == loop_count = crossed

\* C5: a verification with is_correct = true is the last one of its run: the next stage
\* is output_guardrail, only output_guardrail and feedback follow, and the verification
\* leaves loop_count as it was (in a fresh run: the number of verdicts before it).
C5_CorrectVerdictFinalizes ==
  \A i \in 1..Len(verdicts) :
    verdicts[i] =>
      /\ i = Len(verdicts)
      /\ loop_count = i - 1
      /\ pc \in {"output_guardrail", "feedback", "END"}
      /\ \/ Last(trace) = "verifier" /\ pc = "output_guardrail"
         \/ Last(trace) = "output_guardrail" /\ trace[Len(trace) - 1] = "verifier"
         \/ Finalized /\ trace[Len(trace) - 2] = "verifier"

\* A finalized run whose second verification was the correct one
C5_CorrectAfterRetry ==
  /\ Finalized
  /\ verdicts = <<FALSE, TRUE>>
  /\ loop_count = 1
  /\ crossed = 1

\* The query holds an unsafe keyword as a case-insensitive substring
HasUnsafeKeyword(q) == \E k \in harmful_keywords : Contains(Lower(q), k)

\* The query holds a math-relevance keyword as a case-insensitive substring
HasMathKeyword(q) == \E k \in math_keywords : Contains(Lower(q), k)

\* C6: every query that holds an unsafe keyword as a case-insensitive substring is
\* rejected (is_safe = false) with the unsafe-content message, also when it holds math
\* keywords.
C6_UnsafeRejected ==
  (trace # <<>> /\ HasUnsafeKeyword(query)) =>
    /\ ~is_safe
    /\ reasoning_output = MSG_UNSAFE
    /\ pc = "END"

\* A rejected query that holds an unsafe keyword typed in mixed case and a math keyword
C6_UnsafeWithMath ==
  /\ trace # <<>>
  /\ ~Contains(query, <<"h","a","c","k">>)
  /\ HasUnsafeKeyword(query)
  /\ HasMathKeyword(query)
  /\ ~is_safe

\* C7: the filter accepts (is_safe = true) exactly the queries whose trimmed text is
\* non-empty, holds no unsafe keyword and holds a math-relevance keyword, whatever
\* is_safe the state held before.
C7_AcceptIff ==
  trace # <<>> =>
    (is_safe <=> /\ Strip(query) # <<>>
                 /\ ~HasUnsafeKeyword(query)
                 /\ HasMathKeyword(query))

\* A second run rejected right after the filter, on a thread whose first run was
\* accepted (the router of that run left is_math) and so left is_safe = true
C7_RejectedAfterAccepted ==
  /\ runNo = 2
  /\ trace = <<"input_guardrail">>
  /\ "is_math" \in keys
  /\ ~is_safe

\* C8: when the filter rejects, the run ends and final_output is the rejection message
\* of the matching reason.
C8_RejectionIsFinalOutput ==
  (Rejected /\ pc = "END") =>
    final_output = GuardrailMessage(GuardrailVerdict(query))

\* C9: when the filter rejects, no other stage executes in that run and no retry
\* happens.
C9_RejectedRunsNothing ==
  Rejected =>
    /\ trace = <<"input_guardrail">>
    /\ pc = "END"
    /\ verdicts = <<>>
    /\ crossed = 0
    /\ logged = "none"

\* A rejected run at its end
C9_RejectedAtEnd ==
  /\ Rejected
  /\ pc = "END"
  /\ reasoning_output \in {MSG_EMPTY, MSG_UNSAFE, MSG_NOT_MATH}

\* The scores of the local candidates
LocalScores == UNION {local_results[i].score : i \in 1..Len(local_results)}

\* C10: after local retrieval, needs_web_fallback is true exactly when there is no
\* local candidate or the top local score is strictly below the threshold.
C10_FallbackIffBelowThreshold ==
  Ran("local_rag") =>
    (needs_web_fallback <=>
       \/ local_results = <<>>
       \/ \A s \in LocalScores : s < RAG_THRESHOLD)

\* Local retrieval ended with the top score exactly at the threshold
C10_TopScoreAtThreshold ==
  /\ Ran("local_rag")
  /\ local_results # <<>>
  /\ \A s \in LocalScores : s <= RAG_THRESHOLD
  /\ \E s \in LocalScores : s = RAG_THRESHOLD
  /\ ~needs_web_fallback

\* The stage of the current run that follows the i-th one (pc for the last one)
StageAfter(i) == IF i < Len(trace) THEN trace[i + 1] ELSE pc

\* The calls the stage made in the current run, in order
CallsOf(stage) == SelectSeq(calls, LAMBDA c : c.stage = stage)

\* The index call of the current run failed: the tool raised or reported an error
LocalCallFailed ==
  \E i \in 1..Len(calls) :
    calls[i].stage = "local_rag" /\ calls[i].outcome.kind \in {"raise", "error"}

\* C11: when the local index call fails (the tool raises or reports an embedding or
\* search error), local retrieval ends with local_results empty and needs_web_fallback
\* true, and the next stage of the run is external search.
C11_IndexFailureFallsBack ==
  LocalCallFailed =>
    /\ local_results = <<>>
    /\ needs_web_fallback
    /\ \A i \in 1..Len(trace) : trace[i] = "local_rag" => StageAfter(i) = "mcp_search"

\* A run whose index call reported an error and whose external search has run
C11_SearchedAfterIndexError ==
  /\ \E i \in 1..Len(calls) :
       calls[i].stage = "local_rag" /\ calls[i].outcome.kind = "error"
  /\ Ran("mcp_search")
  /\ needs_web_fallback

\* How many of the first i stages of the current run were the given node
CountUpTo(node, i) == Cardinality({j \in 1..i : trace[j] = node})

\* C12: external search executes only right after local retrieval that set
\* needs_web_fallback, or right after a verification judged incorrect (the retry edge);
\* a run with strong local retrieval and a correct first verification never executes it.
C12_SearchOnlyOnFallbackOrRetry ==
  /\ \A i \in 1..Len(trace) :
       trace[i] = "mcp_search" =>
         /\ i > 1
         /\ \/ trace[i - 1] = "local_rag" /\ needs_web_fallback
            \/ trace[i - 1] = "verifier" /\ ~verdicts[CountUpTo("verifier", i)]
  /\ (Ran("local_rag") /\ ~needs_web_fallback /\ verdicts # <<>> /\ verdicts[1])
       => ~Ran("mcp_search")

\* A finalized run with strong local retrieval and a correct first verification
C12_StrongAndCorrect ==
  /\ Finalized
  /\ local_results # <<>>
  /\ ~needs_web_fallback
  /\ verdicts = <<TRUE>>
  /\ ~Ran("mcp_search")

\* The outcomes of the scorer in the current run, in call order
ScorerKinds == [i \in 1..Len(CallsOf("reranker")) |-> CallsOf("reranker")[i].outcome.kind]

\* C13: whenever needs_web_fallback is true, no item of reranked_results has
\* local origin, even if local_results is not empty; this holds when the
\* scorer succeeded and when it failed.
C13_WeakLocalExcluded ==
  needs_web_fallback =>
    \A k \in 1..Len(reranked_results) : reranked_results[k].origin # "local_rag"

\* A weak local hit is in the state, the scorer failed on the first pass and
\* succeeded on the retry, and the merger returned items
C13_WeakLocalWithResults ==
  /\ needs_web_fallback
  /\ local_results # <<>>
  /\ reranked_results # <<>>
  /\ ScorerKinds = <<"raise", "scores">>
  /\ pc = "reasoning"

Range(seq) == {seq[i] : i \in 1..Len(seq)}

\* Text and origin of the local candidates in the state; an item without text
\* is no candidate
LocalKeys ==
  SelectSeq([i \in 1..Len(local_results) |->
               [text |-> Strip(local_results[i].page_content),
                origin |-> local_results[i].origin]],
            LAMBDA c : c.text # <<>>)

\* Text and origin of the external candidates in the state
WebKeys ==
  SelectSeq([i \in 1..Len(web_results) |->
               [text |-> _make_candidate_from_web(web_results[i]).text,
                origin |-> web_results[i].source]],
            LAMBDA c : c.text # <<>>)

\* Text and origin of the items the merger returned
ResultKeys ==
  [k \in 1..Len(reranked_results) |->
     [text |-> reranked_results[k].page_content, origin |-> reranked_results[k].origin]]

\* The merger has just run and its scorer returned scores
JustScored == pc = "reasoning" /\ ScorerKinds # <<>> /\ Last(ScorerKinds) = "scores"

\* C14: when needs_web_fallback is false the pool is every local candidate
\* followed by every external candidate of the state: after a successful
\* scoring every item of reranked_results comes from local_results or
\* web_results, a pool of at most 8 items appears whole, and with all scores
\* equal it appears in local-then-external order.
C14_StrongLocalPoolsBoth ==
  (JustScored /\ ~needs_web_fallback) =>
    LET pool == LocalKeys \o WebKeys
    IN  /\ \A k \in 1..Len(ResultKeys) : ResultKeys[k] \in Range(pool)
        /\ Len(pool) <= RERANK_TOP_K =>
              /\ Len(ResultKeys) = Len(pool)
              /\ \A i \in 1..Len(pool) : pool[i] \in Range(ResultKeys)
              /\ (\A k \in 1..Len(reranked_results) :
                     reranked_results[k].rerank_score = reranked_results[1].rerank_score)
                   => ResultKeys = pool

\* Two strong local hits and two external hits were scored together and an
\* external hit came first
C14_ExternalAboveLocal ==
  /\ JustScored
  /\ ~needs_web_fallback
  /\ Len(LocalKeys) = 2
  /\ Len(WebKeys) = 2
  /\ Len(reranked_results) = 4
  /\ reranked_results[1].origin = "tavily"
  /\ reranked_results[4].origin = "local_rag"

\* The rerank score item k of reranked_results carries
RerankScoreOf(k) == CHOOSE v \in reranked_results[k].rerank_score : TRUE

\* The place in the pool of the candidate that became item k
PoolIndexOf(k) ==
  LET pool == IF needs_web_fallback THEN WebKeys ELSE LocalKeys \o WebKeys
  IN  CHOOSE i \in 1..Len(pool) :
        /\ pool[i] = ResultKeys[k]
        /\ \A j \in 1..(i - 1) : pool[j] # ResultKeys[k]

\* C15: after a successful scoring reranked_results is ordered by rerank score
\* descending, and items of equal score keep the order they had in the pool.
C15_DescendingStable ==
  JustScored =>
    \A k, l \in 1..Len(reranked_results) :
      k < l => \/ RerankScoreOf(k) > RerankScoreOf(l)
               \/ /\ RerankScoreOf(k) = RerankScoreOf(l)
                  /\ PoolIndexOf(k) < PoolIndexOf(l)

\* Pool (local, local, external, external) scored (2, 1, 2, 1): both orders
\* of a pair are decided by score and both ties by pool order
C15_TiesAndReordering ==
  /\ JustScored
  /\ Len(reranked_results) = 4
  /\ [k \in 1..4 |-> RerankScoreOf(k)] = <<2, 2, 1, 1>>
  /\ [k \in 1..4 |-> reranked_results[k].origin]
       = <<"local_rag", "tavily", "local_rag", "tavily">>

\* C16: on every path of the merger (scored, scorer failed, empty pool, empty
\* query) reranked_results has at most RERANK_TOP_K = 8 items.
C16_AtMostTopK == Len(reranked_results) <= RERANK_TOP_K

\* A pool of more than 8 local and more than 8 external candidates was scored
\* and 8 items were returned
C16_LargePoolCut ==
  /\ JustScored
  /\ ~needs_web_fallback
  /\ Len(LocalKeys) > RERANK_TOP_K
  /\ Len(WebKeys) > RERANK_TOP_K
  /\ Len(reranked_results) = RERANK_TOP_K

\* The merger has just run and its scorer raised
JustFailed == pc = "reasoning" /\ ScorerKinds # <<>> /\ Last(ScorerKinds) = "raise"

VerifierCallUnusable(o) ==
  \/ o.kind \in {"raise", "non_string"}
  \/ /\ o.kind = "content"
     /\ \/ ~StartsWith(_strip_code_fence(o.content), <<"{">>)
        \/ ~JsonValid(_strip_code_fence(o.content))

\* verifier_node was the last stage to execute
JustVerified == trace # <<>> /\ Last(trace) = "verifier"

\* C18: for a verifier outcome that is a call error, a non-string response, a
\* response not starting with "{" or unparseable JSON, verifier_node does not
\* raise and stores the default verification: is_correct false, one issue and
\* the fixed retry advice as improved_answer.
C18_VerifierFailureDefault ==
  (JustVerified /\ VerifierCallUnusable(Last(CallsOf("verifier")).outcome)) =>
    /\ pc \in {"mcp_search", "output_guardrail"}
    /\ verification = VERIFIER_DEFAULT
    /\ JsonValid(verification)
    /\ JsonLoads(verification).is_correct = "false"
    /\ JsonLoads(verification).improved_answer = {VERIFIER_DEFAULT_ANSWER}

\* A response that is not a string was followed, on the retry, by unparseable
\* JSON: the default verification is stored and the run goes on to the output
C18_FailedTwice ==
  /\ JustVerified
  /\ Len(CallsOf("verifier")) = 2
  /\ CallsOf("verifier")[1].outcome.kind = "non_string"
  /\ CallsOf("verifier")[2].outcome.content = V_BROKEN
  /\ verification = VERIFIER_DEFAULT
  /\ pc = "output_guardrail"

\* The decomposition call of the current run failed: no API key, an exception,
\* invalid JSON, a value that is not a list, or an empty list
SplitCallFailed ==
  /\ CallsOf("query_breaker") # <<>>
  /\ LET o == Last(CallsOf("query_breaker")).outcome
     IN  \/ o.kind \in {"no_key", "raise", "invalid_json", "non_list"}
         \/ o.kind = "list" /\ o.items = <<>>

\* C19: query_breaker_node always writes a non-empty list to broken_queries;
\* when the heuristic finds no split and the decomposition call fails,
\* broken_queries is exactly the list holding the original query.
C19_BrokenQueriesNeverEmpty ==
  Ran("query_breaker") =>
    /\ broken_queries # <<>>
    /\ SplitCallFailed => broken_queries = <<query>>

\* A query whose connective is in upper case is not split by the heuristic,
\* the call returns an empty list, and the query itself is written
C19_EmptyListFallsBack ==
  /\ Ran("query_breaker")
  /\ query = Q_TWO_UPPER
  /\ Last(CallsOf("query_breaker")).outcome = LlmSplitOutcome("list", <<>>)
  /\ broken_queries = <<Q_TWO_UPPER>>

\* C20: whenever the heuristic split yields two or more non-empty fragments,
\* query_breaker_node returns exactly those trimmed fragments in order and
\* the external decomposition call is never invoked; the call is invoked only
\* when the heuristic yields a single fragment.
C20_HeuristicSplitSkipsCall ==
  Ran("query_breaker") =>
    LET fragments == _heuristic_split(Strip(query))
    IN  /\ Len(fragments) >= 2 =>
              /\ broken_queries = fragments
              /\ \A i \in 1..Len(fragments) :
                    fragments[i] # <<>> /\ fragments[i] = Strip(fragments[i])
              /\ CallsOf("query_breaker") = <<>>
        /\ CallsOf("query_breaker") # <<>> => Len(fragments) = 1

\* "find x then y and z" was split on the first connective in priority order,
\* " and ", and no call was made
C20_SplitOnAnd ==
  /\ Ran("query_breaker")
  /\ query = Q_THREE
  /\ broken_queries = << <<"f","i","n","d"," ","x"," ","t","h","e","n"," ","y">>, <<"z">> >>
  /\ CallsOf("query_breaker") = <<>>

\* The improved_answer strings the stored verification carries (at most one)
StoredImproved ==
  IF JsonValid(verification) THEN JsonLoads(verification).improved_answer ELSE {}

\* C21: in the output finalizer, whenever the verification carries an
\* improved_answer that is a non-empty string after trimming, final_output is
\* that trimmed improved_answer; otherwise final_output is the cleaned
\* reasoning text.
C21_ImprovedAnswerPreferred ==
  Ran("output_guardrail") =>
    IF \E a \in StoredImproved : Strip(a) # <<>>
      THEN \E a \in StoredImproved : final_output = Strip(a)
      ELSE final_output = CleanedReasoning(reasoning_output)

\* The verifier judged the answer incorrect twice and handed back " x = 2 ":
\* the trimmed text is the final output, not the reasoning text
C21_TrimmedImprovedUsed ==
  /\ Ran("output_guardrail")
  /\ StoredImproved = {A_X2_RAW}
  /\ final_output = <<"x"," ","="," ","2">>
  /\ reasoning_output = R_THINK

\* C22: the cleaning of the output finalizer is idempotent: for every
\* reasoning text, applying it (think-segment removal, disallowed-phrase
\* removal, blank-line collapse, trim) to its own output returns that output
\* unchanged.
C22_CleaningIdempotent ==
  Ran("output_guardrail") =>
    CleanedReasoning(CleanedReasoning(reasoning_output)) = CleanedReasoning(reasoning_output)

\* The text holds an opening tag followed, somewhere after it, by a closing tag
HasThinkSegment(t) ==
  \E i, j \in 1..Len(t) :
    /\ MatchAt(Lower(t), THINK_OPEN, i)
    /\ MatchAt(Lower(t), THINK_CLOSE, j)
    /\ j >= i + Len(THINK_OPEN)

\* The text holds one of the disallowed phrases as whole words, in any letter case
HasForbiddenPhrase(t) ==
  \E n \in 1..Len(FORBIDDEN_PATTERNS) : RemovePhrase(t, FORBIDDEN_PATTERNS[n]) # t

\* C23: the final_output the output finalizer produces never contains a
\* complete <think>...</think> segment or a disallowed phrase, whether it is
\* taken from the cleaned reasoning text or from the improved_answer of the
\* verifier.
C23_FinalOutputClean ==
  Ran("output_guardrail") =>
    ~HasThinkSegment(final_output) /\ ~HasForbiddenPhrase(final_output)

\* C24: once the output finalizer has set final_output in a run, the run is
\* terminal: the only step left is the feedback stage, which ends the run and
\* leaves final_output and every other state field unchanged, also when its
\* evaluator or its log write fails; no retrieval, search, merge, reasoning
\* or verification stage executes afterwards.
C24_TerminalAfterOutput ==
  [][Ran("output_guardrail") =>
       /\ pc = "feedback"
       /\ pc' = "END"
       /\ trace' = Append(trace, "feedback")
       /\ UNCHANGED stateFields]_vars

\* The run ended after the log write of the feedback stage failed, with the
\* final output in the state
C24_EndedAfterFailedLogging ==
  /\ Finalized
  /\ logged = "write_failed"
  /\ final_output # <<>>
  /\ Last(trace) = "feedback"

\* C25: no failure of an external call propagates out of a stage: after a
\* failure of decomposition, index search, the external-search subprocess,
\* scoring, reasoning or verification (construction of the model client
\* included) the stage returns a state and the run continues.
C25_NoFailurePropagates == pc # "crashed"

\* A run of a query begins: nothing of it has executed yet
RunBegins == pc = "input_guardrail" /\ trace = <<>>

\* C27: for any sequence of queries run under one reused session key, each
\* query's run begins its retry loop with loop_count = 0, so loop_count never
\* exceeds MAX_VERIFICATION_LOOPS = 2 across the whole sequence.
C27_RetryBudgetPerQuery ==
  /\ RunBegins => loop_count = 0
  /\ loop_count <= MAX_VERIFICATION_LOOPS

\* C28: for any sequence of queries run under one reused session key, the
\* final_output returned for a query was produced during that query's own
\* run: a query the filter rejects never returns the non-empty final_output
\* of an earlier query on the same key.
C28_FinalOutputOfOwnRun ==
  (pc \notin Nodes /\ trace # <<>> /\ pc # "crashed") =>
    (final_output # <<>> => Ran("output_guardrail"))

\* C29: for any sequence of queries run under one reused session key, every
\* external candidate that enters the merger's pool in a query's run was
\* fetched by an external search executed during that same run; in a run
\* where external search does not execute, the pool has no external
\* candidate and the merger returns none.
C29_ExternalCandidatesOfOwnRun ==
  ~Ran("mcp_search") =>
    /\ pc = "reranker" => WebKeys = <<>>
    /\ Ran("reranker") =>
          \A k \in 1..Len(reranked_results) : reranked_results[k].origin = "local_rag"

\* The stages an accepted run may execute directly after a stage
StageOrder ==
  [input_guardrail  |-> {"router"},
   router           |-> {"query_breaker"},
   query_breaker    |-> {"local_rag"},
   local_rag        |-> {"mcp_search", "reranker"},
   mcp_search       |-> {"reranker"},
   reranker         |-> {"reasoning"},
   reasoning        |-> {"verifier"},
   verifier         |-> {"mcp_search", "output_guardrail"},
   output_guardrail |-> {"feedback"},
   feedback         |-> {}]

\* C30: for an accepted query the stages execute strictly in the order
\* decomposer, local retrieval, (optional external search), merger,
\* reasoning, verifier; every external search is followed by one full merger,
\* reasoning, verifier sequence before the finalizer can run, and the
\* finalizer is entered only directly after a verifier execution.
C30_StageOrder ==
  /\ \A i \in 1..(Len(trace) - 1) : trace[i + 1] \in StageOrder[trace[i]]
  /\ \A i \in 1..Len(trace) :
        /\ trace[i] = "output_guardrail" => (i > 1 /\ trace[i - 1] = "verifier")
        /\ trace[i] = "mcp_search" =>
              \A j \in (i + 1)..Len(trace) :
                trace[j] = "output_guardrail" =>
                  \E k \in (i + 1)..(j - 3) :
                    /\ trace[k] = "reranker"
                    /\ trace[k + 1] = "reasoning"
                    /\ trace[k + 2] = "verifier"
  /\ (is_safe /\ Len(trace) >= 4) =>
        SubSeq(trace, 1, 4) = <<"input_guardrail", "router", "query_breaker", "local_rag">>

\* A finalized run that searched after local retrieval and again after an
\* incorrect verdict
C30_TwoSearchesThenOutput ==
  /\ Finalized
  /\ trace = <<"input_guardrail", "router", "query_breaker", "local_rag",
               "mcp_search", "reranker", "reasoning", "verifier",
               "mcp_search", "reranker", "reasoning", "verifier",
               "output_guardrail", "feedback">>

\* The run of the other session, when there is one
OtherRun == sessions.parked[1]

JustSearched ==
  /\ trace # <<>>
  /\ Last(trace) = "mcp_search"
  /\ CallsOf("mcp_search") # <<>>

\* The outcome of the last bridge call of the current run
LastSearch == Last(CallsOf("mcp_search")).outcome

\* The hits the bridge subprocess printed: the "results" list of a JSON object
HitsOf(p) ==
  IF p.status \in {"exit_zero", "exit_nonzero"} /\ p.stdout = "results_dict"
    THEN p.results ELSE <<>>

\* C31: after each execution of the external search stage, web_results is
\* exactly the list of hits returned by that execution (replaced, not
\* appended): results of an earlier search in the same run are discarded, and
\* if the new search yields nothing web_results is empty.
C31_WebResultsReplaced ==
  (JustSearched /\ pc # "crashed") =>
    /\ Len(web_results) = Len(HitsOf(LastSearch))
    /\ \A i \in 1..Len(web_results) :
         web_results[i] = [source  |-> "tavily",
                           title   |-> HitsOf(LastSearch)[i].title,
                           url     |-> HitsOf(LastSearch)[i].url,
                           content |-> HitsOf(LastSearch)[i].content]

\* The search of the retry returned nothing after the first search of the run
\* had returned two hits: web_results is empty
C31_SecondSearchEmpty ==
  /\ JustSearched
  /\ Len(CallsOf("mcp_search")) = 2
  /\ Len(HitsOf(CallsOf("mcp_search")[1].outcome)) = 2
  /\ HitsOf(LastSearch) = <<>>
  /\ web_results = <<>>

\* The bridge subprocess timed out, exited with an error, or printed output
\* without a results list
SearchBackendFailed(p) ==
  \/ p.status \in {"timeout", "exit_nonzero"}
  \/ p.status = "exit_zero" /\ p.stdout # "results_dict"

\* C32: if the external search backend times out, exits with an error, or
\* returns output without a results list, mcp_search_node sets web_results to
\* the empty list, does not raise, and the run continues to the merger.
C32_BackendFailureYieldsNothing ==
  (JustSearched /\ SearchBackendFailed(LastSearch)) =>
    /\ web_results = <<>>
    /\ "web_results" \in keys
    /\ pc = "reranker"

\* The search of the retry timed out after the first search of the run had
\* returned a hit, and the merger is next
C32_TimedOutOnRetry ==
  /\ JustSearched
  /\ Len(CallsOf("mcp_search")) = 2
  /\ HitsOf(CallsOf("mcp_search")[1].outcome) = <<WEB_A>>
  /\ LastSearch.status = "timeout"
  /\ pc = "reranker"

\* The candidate pool the merger builds from the current state
CurrentPool == CandidatePool(needs_web_fallback, local_results, web_results)

\* C33: if the merger's candidate pool is empty, reranked_results is the empty
\* list, the scorer is not called, no error is raised, and the run still
\* proceeds to reasoning and verification.
C33_EmptyPoolEmptyRanking ==
  [][/\ (pc = "reranker" /\ CurrentPool = <<>>) =>
          /\ reranked_results' = <<>>
          /\ "reranked_results" \in keys'
          /\ calls' = calls
          /\ pc' = "reasoning"
     /\ (pc = "reasoning" /\ reranked_results = <<>>) => pc' = "verifier"]_vars

\* The index call failed and the search timed out: the merger had no
\* candidate, called no scorer, and the verifier has run on the answer
C33_VerifiedWithoutCandidates ==
  /\ Ran("reranker")
  /\ CallsOf("reranker") = <<>>
  /\ needs_web_fallback
  /\ local_results = <<>>
  /\ web_results = <<>>
  /\ reranked_results = <<>>
  /\ "reranked_results" \in keys
  /\ Ran("verifier")

\* The outcome of the last verifier call of the current run
LastVerifier == Last(CallsOf("verifier")).outcome

\* The response is a JSON object whose is_correct field is true
ResponseSaysCorrect(o) ==
  /\ o.kind = "content"
  /\ JsonValid(_strip_code_fence(o.content))
  /\ JsonLoads(_strip_code_fence(o.content)).is_correct = "true"

\* C34: a verifier response is treated as a correct verdict only if it is a
\* JSON object whose is_correct field is true: after any other response
\* (a JSON object without the is_correct field among them) loop_count has been
\* incremented and the run goes to the finalizer only because the cap is
\* reached, never as a correct verdict.
C34_OnlyTrueIsCorrect ==
  (JustVerified /\ pc # "crashed" /\ ~ResponseSaysCorrect(LastVerifier)) =>
    /\ loop_count >= 1
    /\ pc = "output_guardrail" => loop_count >= MAX_VERIFICATION_LOOPS

\* C35: if the verifier call fails or returns unparseable output on the last
\* verification of a run, the final_output of that run is the fixed "could not
\* verify this solution" improved_answer of the failure default, not the
\* reasoning text; the reasoning text reaches the user only when the stored
\* verification has no non-empty improved_answer.
C35_FailureDefaultIsFinalOutput ==
  Ran("output_guardrail") =>
    /\ VerifierCallUnusable(LastVerifier) =>
          /\ final_output = VERIFIER_DEFAULT_ANSWER
          /\ final_output # CleanedReasoning(reasoning_output)
    /\ final_output = CleanedReasoning(reasoning_output) =>
          \A a \in StoredImproved : Strip(a) = <<>>

\* The verifier judged the first answer incorrect and its call failed on the
\* retry: the run ends with the fixed advice as final_output
C35_FailedOnLastVerification ==
  /\ Finalized
  /\ Len(CallsOf("verifier")) = 2
  /\ CallsOf("verifier")[1].outcome = LlmOutcome("content", V_FALSE_IMPROVED)
  /\ LastVerifier.kind = "raise"
  /\ reasoning_output = R_ANSWER
  /\ final_output = VERIFIER_DEFAULT_ANSWER

\* The stages from the external search to the finalizer
AfterLocalRag == {"mcp_search", "reranker", "reasoning", "verifier", "output_guardrail"}

\* C36: local retrieval executes exactly once per run of an accepted query:
\* the retry loop never re-enters it, and local_results and needs_web_fallback
\* are left unchanged by external search, merger, reasoning, verifier and
\* finalizer, so the merge policy branch of the first iteration is the one of
\* every retry iteration.
C36_LocalRetrievalOnce ==
  [][/\ pc \in AfterLocalRag =>
          /\ UNCHANGED <<local_results, needs_web_fallback>>
          /\ pc' # "local_rag"
          /\ Cardinality({j \in 1..Len(trace') : trace'[j] = "local_rag"}) = 1
     /\ pc = "local_rag" => ~Ran("local_rag")]_vars

\* A run on strong local results that merged, searched on the retry, merged
\* again and was finalized: the two local results of the one retrieval are
\* still in the state
C36_RetriedOnSameLocalResults ==
  /\ Finalized
  /\ CountUpTo("local_rag", Len(trace)) = 1
  /\ CountUpTo("mcp_search", Len(trace)) = 1
  /\ CountUpTo("reranker", Len(trace)) = 2
  /\ ~needs_web_fallback
  /\ Len(local_results) = 2

\* The text holds a connective token as a whole word, in any letter case,
\* with text before and after it
HasConnective(q) ==
  \E n \in 1..Len(triggers), i \in 2..Len(q) :
    /\ MatchAt(Lower(q), triggers[n], i)
    /\ i + Len(triggers[n]) <= Len(q)

\* C37: the connective-token match of the heuristic split is
\* case-insensitive: for every query that contains one of the connective
\* tokens as a whole word in any letter case with non-empty text on both
\* sides, the heuristic returns at least two non-empty trimmed fragments, and
\* the query breaker writes them without a decomposition call.
C37_SplitIgnoresCase ==
  (Ran("query_breaker") /\ HasConnective(Strip(query))) =>
    LET fragments == _heuristic_split(Strip(query))
    IN  /\ Len(fragments) >= 2
        /\ \A i \in 1..Len(fragments) :
              fragments[i] # <<>> /\ fragments[i] = Strip(fragments[i])
        /\ broken_queries = fragments
        /\ CallsOf("query_breaker") = <<>>

\* The result of the decomposition call is a JSON array in which every
\* element is a non-empty string
SplitResultAcceptable(o) ==
  /\ o.kind = "list"
  /\ \A i \in 1..Len(o.items) : Strip(o.items[i]) # <<>>

\* C38: the result of the external decomposition call is accepted only if it
\* parses as a JSON array in which every element is a non-empty string; for
\* any other result (an array containing an empty or whitespace-only string
\* among them) broken_queries is exactly the list holding the original query.
C38_OnlyCleanArraysAccepted ==
  (Ran("query_breaker") /\ CallsOf("query_breaker") # <<>>) =>
    (~SplitResultAcceptable(Last(CallsOf("query_breaker")).outcome) =>
       broken_queries = <<Strip(query)>>)

\* A Markdown code fence: three backticks
FENCE == <<BT, BT, BT>>

\* The JSON objects the text wraps in a code fence, with or without the json
\* tag (at most one)
FencedObjects(text) ==
  {row[1] : row \in {r \in JsonTable :
     \/ Strip(text) = FENCE \o JSON_TAG \o <<"\n">> \o r[1] \o <<"\n">> \o FENCE
     \/ Strip(text) = FENCE \o <<"\n">> \o r[1] \o <<"\n">> \o FENCE}}

\* C39: a verifier response that is a valid VerificationResult JSON object
\* wrapped in a Markdown code fence (three backticks, optionally tagged json)
\* is unwrapped and stored as the verification with its own is_correct value,
\* rather than being replaced by the failure default.
C39_FencedResponseUnwrapped ==
  (JustVerified /\ pc # "crashed" /\ LastVerifier.kind = "content") =>
    \A object \in FencedObjects(LastVerifier.content) :
      /\ verification = object
      /\ Last(verdicts) = (JsonLoads(object).is_correct = "true")

=============================================================================
